---- MODULE Spec2Model ----
(***************************************************************************)
(* Holistic response-time analyses (fixed priority, global EDF, local EDF) *)
(* and the deadline-driven priority derivation of gradrts, as a state      *)
(* machine over a linear system: flows of chained tasks mapped on          *)
(* processors.                                                             *)
(*                                                                         *)
(* Tasks are numbered 1..n in the order of LinearSystem.tasks (flow after  *)
(* flow, each flow in chain order).  All inputs are positive integers, so  *)
(* every quantity the analyses compute is an integer: math.ceil(a / b) and *)
(* math.floor(a / b) are the exact integer ceiling and floor, and          *)
(* math.isclose(a, b) (relative tolerance 1e-9) is equality.               *)
(*                                                                         *)
(* The assigners and the optimizer divide: a priority or a deadline is     *)
(* then a fraction.  The deadlines of a state are kept as integers over    *)
(* one common denominator dunit (Task.deadline of t is deadline[t] /       *)
(* dunit), the priorities over punit, both in lowest terms, so that equal  *)
(* assignments are equal states.                                           *)
(***************************************************************************)
EXTENDS Integers, Sequences, FiniteSets, TLC

VARIABLES
    sys,        \* the immutable part of the system: flows, wcets, periods, deadlines, schedulers
    processor,  \* Task.processor, per task
    priority,   \* Task.priority, per task
    deadline,   \* Task.deadline (local deadline), per task: the numerators
    dunit,      \* the common denominator of the deadlines
    punit,      \* the common denominator of the priorities
    wcrt,       \* Task.wcrt, per task (None when unknown)
    cfg,        \* the analysis object: kind, limit_factor, reset
    pc,         \* position in the running operation
    exit,       \* how apply ended
    wcrts,      \* HolisticFPAnalysis.apply: local wcrts
    wcrts_prev, \* HolisticFPAnalysis.apply: local wcrts_prev
    cur,        \* loop variable: the task (FP, local EDF) or processor (global EDF) under analysis
    p,          \* HolisticFPAnalysis.apply: local p
    w,          \* HolisticFPAnalysis.apply: local w
    w_prev,     \* HolisticFPAnalysis.apply: local w_prev
    changed,    \* EDF apply: local changed
    length,     \* HolisticGlobalEDFAnalysis._proc_analysis: local length
    todo,       \* HolisticGlobalEDFAnalysis._proc_analysis: the tasks of proc.tasks still to analyse
    opt,        \* the operation that runs (assigner, handler, cost function): its options and progress
    backup,     \* backup_assignment: the snapshot (InvslackCost.compute: local a)
    xvec,       \* the parameter vector x handed to a handler or to a cost function
    cost,       \* InvslackCost.compute: local cost, a fraction <<numerator, denominator>>
    raised      \* the exception that left the operation, "none" when it returned

vars == <<sys, processor, priority, deadline, dunit, punit, wcrt, cfg, pc, exit,
          wcrts, wcrts_prev, cur, p, w, w_prev, changed, length, todo,
          opt, backup, xvec, cost, raised>>

sysvars == <<sys, processor, priority, deadline, dunit, punit>>

\* the state of the assigners, handlers and cost functions: the analyses leave it alone
extvars == <<opt, backup, xvec, cost, raised>>

fpvars == <<wcrts, wcrts_prev, p, w, w_prev>>

edfvars == <<changed, length, todo>>

(***************************************************************************)
(* Bounds of the model.                                                    *)
(***************************************************************************)
\* largest wcet of a generated task
MaxWcet == 2

\* how many writes to the assignment the model follows between a backup and its restore
MaxMutations == 2

\* largest number of processors of the systems handed to the parameter handlers
MaxProcs == 4

\* cap of the p loop of HolisticFPAnalysis.apply: the step to p + 1 is taken only below it
MaxP == 8

\* frames of recursion allowed to _busy_period / _longest_busy_period / _wab / _wa
\* (CPython's recursion limit, scaled down)
MaxDepth == 8

\* flow periods, end-to-end deadlines, local deadlines and limit factors of generated systems
Periods == {2, 3}

FlowDeadlines == {3}

LocalDeadlines == {1, 2}

LimitFactors == {1, 2}

\* flow lengths of generated systems (tasks per flow, flow after flow)
FlowShapes == {<<3>>, <<2, 1>>, <<1, 2>>}

(***************************************************************************)
(* Arithmetic.                                                             *)
(***************************************************************************)
\* Task.wcrt = None
None == -1

\* math.floor(a / b), b > 0
Floor(a, b) == a \div b

\* math.ceil(a / b), b > 0
Ceil(a, b) == -((-a) \div b)

Max(a, b) == IF a >= b THEN a ELSE b

Min(a, b) == IF a <= b THEN a ELSE b

RECURSIVE SumTo(_, _)
\* sum(f[1], ..., f[k])
SumTo(f, k) == IF k = 0 THEN 0 ELSE f[k] + SumTo(f, k - 1)

\* sum of a sequence
Sum(f) == SumTo(f, Len(f))

(***************************************************************************)
(* The system model (model/linear_system.py).                              *)
(***************************************************************************)
Tasks == 1..sys.n

Procs == 1..sys.nproc

\* Task.flow
flow(t) == sys.flowOf[t]

\* Task.period
period(t) == sys.period[flow(t)]

wcet(t) == sys.wcet[t]

\* Flow.deadline of the task's flow
flow_deadline(t) == sys.fdeadline[flow(t)]

\* Flow.predecessors: the task before t in its flow, if any
predecessors(t) == IF t > 1 /\ flow(t - 1) = flow(t) THEN {t - 1} ELSE {}

\* Flow.all_successors: the tasks after t in its flow
all_successors(t) == {u \in Tasks : u > t /\ flow(u) = flow(t)}

\* Task.jitter under the WCRTs wc: the predecessor's wcrt, 0 for a first task
jitterIn(wc, t) == IF predecessors(t) = {} THEN 0 ELSE wc[t - 1]

jitter(t) == jitterIn(wcrt, t)

\* Processor.tasks, as the set of tasks mapped on processor q
proc_tasks(q) == {t \in Tasks : processor[t] = q}

\* Flow.tasks[-1]
last_task(f) == CHOOSE t \in Tasks : flow(t) = f /\ all_successors(t) = {}

\* Flow.wcrt
flow_wcrt(f) == wcrt[last_task(f)]

\* Flow.is_schedulable
flow_is_schedulable(f) == flow_wcrt(f) # None /\ flow_wcrt(f) <= sys.fdeadline[f]

\* a system counted as EDF as soon as one processor is
some_edf == \E q \in Procs : sys.sched[q] = "EDF"

\* is_scheduler_type(system, SchedulerType.EDF)
is_edf == \A q \in Procs : sys.sched[q] = "EDF"

(***************************************************************************)
(* model/analysis_function.py                                              *)
(***************************************************************************)
RECURSIVE init_wcrt_of(_)
\* init_wcrt: wcrt_i = wcet_i + wcrt_{i-1} along each flow
init_wcrt_of(t) == wcet(t) + (IF predecessors(t) = {} THEN 0 ELSE init_wcrt_of(t - 1))

init_wcrt == [t \in Tasks |-> init_wcrt_of(t)]

\* a reset that clears the tasks of the first flow only
reset_first_flow == [t \in Tasks |-> IF flow(t) = 1 THEN None ELSE wcrt[t]]

\* reset_wcrt
reset_wcrt == [t \in Tasks |-> None]

\* the comparison of higher_priority turned around
lower_priority(t) ==
    {u \in proc_tasks(processor[t]) : priority[u] <= priority[t] /\ u # t}

\* higher_priority(task): same processor, priority >= the task's, not the task
higher_priority(t) ==
    {u \in proc_tasks(processor[t]) : priority[u] >= priority[t] /\ u # t}

(***************************************************************************)
(* The systems apply is run on.                                            *)
(***************************************************************************)
\* examples/example_models.py get_palencia_system: cpu1 = 1, cpu2 = 2, network = 3
PalenciaSys ==
    [n |-> 6, nflows |-> 2, nproc |-> 3,
     flowOf |-> <<1, 1, 1, 2, 2, 2>>,
     wcet |-> <<5, 2, 20, 5, 10, 10>>,
     period |-> <<30, 40>>,
     fdeadline |-> <<60, 80>>,
     sched |-> <<"FP", "FP", "FP">>]

PalenciaProcessor == <<1, 3, 2, 2, 3, 1>>

PalenciaPriority == <<10, 1, 1, 10, 10, 1>>

\* examples/example_models.py get_three_tasks
ThreeTasksSys ==
    [n |-> 3, nflows |-> 1, nproc |-> 1,
     flowOf |-> <<1, 1, 1>>,
     wcet |-> <<2, 5, 20>>,
     period |-> <<30>>,
     fdeadline |-> <<90>>,
     sched |-> <<"FP">>]

ThreeTasksProcessor == <<1, 1, 1>>

ThreeTasksPriority == <<10, 5, 1>>

\* the flow of each task for flow lengths sh
FlowOfShape(sh) ==
    [t \in 1..Sum(sh) |-> IF t <= sh[1] THEN 1 ELSE 2]

\* generated systems: two processors of one scheduler type sc, one period and one
\* end-to-end deadline per flow
GenSystems(sc) ==
    UNION { { [n |-> Sum(sh), nflows |-> Len(sh), nproc |-> 2,
               flowOf |-> FlowOfShape(sh),
               wcet |-> wc,
               period |-> [f \in 1..Len(sh) |-> T],
               fdeadline |-> [f \in 1..Len(sh) |-> D],
               sched |-> sc] :
              wc \in [1..Sum(sh) -> 1..MaxWcet], T \in Periods, D \in FlowDeadlines } :
            sh \in FlowShapes }

\* Task.__init__ defaults: priority = 1, deadline = 0
DefaultPriority == 1

DefaultDeadline == 0

\* priorities of generated FP systems
Priorities == {1, 2}

\* what Task.wcrt may hold before apply: nothing, or the result of an earlier analysis
StaleWcrts == {None, 100}

AnalysisKinds == {"FP", "GEDF", "LEDF"}

\* HolisticFPAnalysis.__init__ / HolisticGlobalEDFAnalysis.__init__ / HolisticLocalEDFAnalysis.__init__
LimitFactorDefault == 10

Configs(lfs) == [kind : AnalysisKinds, limit_factor : lfs, reset : BOOLEAN]

\* the two example systems, as built by examples/example_models.py
InitExample ==
    /\ \/ /\ sys = PalenciaSys
          /\ processor = PalenciaProcessor
          /\ priority = PalenciaPriority
       \/ /\ sys = ThreeTasksSys
          /\ processor = ThreeTasksProcessor
          /\ priority = ThreeTasksPriority
    /\ deadline = [t \in 1..sys.n |-> DefaultDeadline]
    /\ cfg \in Configs({1, LimitFactorDefault})

\* generated all-FP systems with arbitrary priorities, analysed by the FP analysis
InitGenFP ==
    /\ sys \in GenSystems(<<"FP", "FP">>)
    /\ processor \in {m \in [1..sys.n -> 1..2] : m[1] = 1}
    /\ priority \in [1..sys.n -> Priorities]
    /\ deadline = [t \in 1..sys.n |-> DefaultDeadline]
    /\ cfg \in {c \in Configs(LimitFactors) : c.kind = "FP"}

\* generated all-EDF systems with arbitrary local deadlines, analysed by the EDF analyses
InitGenEDF ==
    /\ sys \in GenSystems(<<"EDF", "EDF">>)
    /\ processor \in {m \in [1..sys.n -> 1..2] : m[1] = 1}
    /\ priority = [t \in 1..sys.n |-> DefaultPriority]
    /\ deadline \in [1..sys.n -> LocalDeadlines]
    /\ cfg \in {c \in Configs(LimitFactors) : c.kind # "FP"}

\* generated systems with one FP processor, handed to the EDF analyses
InitGenMixed ==
    /\ sys \in GenSystems(<<"EDF", "FP">>)
    /\ processor \in {m \in [1..sys.n -> 1..2] : m[1] = 1}
    /\ priority = [t \in 1..sys.n |-> DefaultPriority]
    /\ deadline = [t \in 1..sys.n |-> DefaultDeadline]
    /\ cfg \in {c \in Configs(LimitFactors) : c.kind # "FP"}

\* no operation of the assigners, handlers or cost functions has run
NoCost == <<0, 1>>

InitExt ==
    /\ opt = [op |-> "none"]
    /\ backup = <<>>
    /\ xvec = <<>>
    /\ cost = NoCost
    /\ raised = "none"

\* the locals of the analyses before apply
InitLocals ==
    /\ pc = "start"
    /\ exit = "none"
    /\ wcrts = <<>>
    /\ wcrts_prev = <<>>
    /\ cur = 0
    /\ p = 0
    /\ w = 0
    /\ w_prev = 0
    /\ changed = FALSE
    /\ length = 0
    /\ todo = <<>>

Init ==
    /\ InitExample \/ InitGenFP \/ InitGenEDF \/ InitGenMixed
    /\ dunit = 1
    /\ punit = 1
    /\ InitExt
    /\ wcrt \in {[t \in 1..sys.n |-> v] : v \in StaleWcrts}
    /\ pc = "start"
    /\ exit = "none"
    /\ wcrts = <<>>
    /\ wcrts_prev = <<>>
    /\ cur = 0
    /\ p = 0
    /\ w = 0
    /\ w_prev = 0
    /\ changed = FALSE
    /\ length = 0
    /\ todo = <<>>

(***************************************************************************)
(* HolisticFPAnalysis.apply (analysis/holistic_fp_analysis.py)             *)
(***************************************************************************)
\* limit = task.flow.deadline * self.limit_factor
limit(t) == flow_deadline(t) * cfg.limit_factor

\* a w step that counts only the activations completed in the window
fp_w_floor(t, pp, ww) ==
    Sum([u \in Tasks |-> IF u \in higher_priority(t)
                         THEN Floor(jitter(u) + ww, period(u)) * wcet(u)
                         ELSE 0])
    + pp * wcet(t)

\* one step of the w loop: the interference of hp plus p jobs of the task
fp_w(t, pp, ww) ==
    Sum([u \in Tasks |-> IF u \in higher_priority(t)
                         THEN Ceil(jitter(u) + ww, period(u)) * wcet(u)
                         ELSE 0])
    + pp * wcet(t)

\* a response time that leaves the jitter out
fp_r_no_jitter(t, pp, ww) == ww - (pp - 1) * period(t)

\* r = w - (p - 1) * task.period + task.jitter
fp_r(t, pp, ww) == ww - (pp - 1) * period(t) + jitter(t)

\* an update that stores r without comparing
fp_update_always(wc, t, r) == [wc EXCEPT ![t] = r]

\* if r > task.wcrt: task.wcrt = r
fp_update(wc, t, r) == IF r > wc[t] THEN [wc EXCEPT ![t] = r] ELSE wc

\* a propagation that reaches the next task of the flow only
propagate_next_only(wc, t) ==
    [u \in Tasks |-> IF u = t + 1 /\ u \in all_successors(t) THEN wc[t] ELSE wc[u]]

\* for t in task.all_successors: t.wcrt = task.wcrt
propagate(wc, t) == [u \in Tasks |-> IF u \in all_successors(t) THEN wc[t] ELSE wc[u]]

\* the recovery of the limit-exceeded return
fp_recover(wc, t) == IF cfg.reset THEN reset_wcrt ELSE propagate(wc, t)

\* the task visited at position k of a pass: for task in system.tasks, line 26, visits the
\* tasks in the order of the system; opt.order is the order of a run that visits them otherwise
task_at(k) == IF opt.op = "order" THEN opt.order[k] ELSE k

\* line 23 with a test that also lets the loop end after any pass
FPConvergedAfterAnyPass ==
    /\ pc = "outer"
    /\ wcrts_prev # [t \in Tasks |-> 0]
    /\ pc' = "done"
    /\ exit' = "converged"
    /\ UNCHANGED <<extvars, sysvars, wcrt, cfg, fpvars, cur, edfvars>>

\* lines 18-21: init_wcrt and the two snapshots
FPStart ==
    /\ pc = "start"
    /\ cfg.kind = "FP"
    /\ wcrt' = init_wcrt
    /\ wcrts' = init_wcrt
    /\ wcrts_prev' = [t \in Tasks |-> 0]
    /\ pc' = "outer"
    /\ UNCHANGED <<extvars, sysvars, cfg, exit, cur, p, w, w_prev, edfvars>>

\* line 23, the loop test fails: apply returns
FPConverged ==
    /\ pc = "outer"
    /\ wcrts = wcrts_prev
    /\ pc' = "done"
    /\ exit' = "converged"
    /\ UNCHANGED <<extvars, sysvars, wcrt, cfg, fpvars, cur, edfvars>>

\* lines 23-33: a new pass starts with the first task, p = 1
FPPass ==
    /\ pc = "outer"
    /\ wcrts # wcrts_prev
    /\ wcrts_prev' = wcrts
    /\ cur' = 1
    /\ p' = 1
    /\ w_prev' = 0
    /\ w' = wcet(task_at(1))
    /\ pc' = "wloop"
    /\ UNCHANGED <<extvars, sysvars, wcrt, cfg, exit, wcrts, edfvars>>

\* lines 35-43: one iteration of the w loop whose r stays within the limit
FPWStep ==
    /\ pc = "wloop"
    /\ w # w_prev
    /\ LET nw == fp_w(task_at(cur), p, w)
           r == fp_r(task_at(cur), p, nw)
       IN /\ r <= limit(task_at(cur))
          /\ w_prev' = w
          /\ w' = nw
          /\ wcrt' = fp_update(wcrt, task_at(cur), r)
    /\ UNCHANGED <<extvars, sysvars, cfg, pc, exit, wcrts, wcrts_prev, cur, p, edfvars>>

\* lines 35-50: the iteration of the w loop whose r exceeds the limit: apply returns
FPLimit ==
    /\ pc = "wloop"
    /\ w # w_prev
    /\ LET nw == fp_w(task_at(cur), p, w)
           r == fp_r(task_at(cur), p, nw)
       IN /\ r > limit(task_at(cur))
          /\ w_prev' = w
          /\ w' = nw
          /\ wcrt' = fp_recover(fp_update(wcrt, task_at(cur), r), task_at(cur))
    /\ pc' = "done"
    /\ exit' = "limit"
    /\ UNCHANGED <<extvars, sysvars, cfg, wcrts, wcrts_prev, cur, p, edfvars>>

\* lines 52-53, 26-33: the busy period ended, the next task is taken up
FPNextTask ==
    /\ pc = "wloop"
    /\ w = w_prev
    /\ w <= p * period(task_at(cur))
    /\ cur < sys.n
    /\ cur' = cur + 1
    /\ p' = 1
    /\ w_prev' = 0
    /\ w' = wcet(task_at(cur + 1))
    /\ UNCHANGED <<extvars, sysvars, wcrt, cfg, pc, exit, wcrts, wcrts_prev, edfvars>>

\* lines 52-53, 60: the busy period of the last task ended, the pass is over
FPPassEnd ==
    /\ pc = "wloop"
    /\ w = w_prev
    /\ w <= p * period(task_at(cur))
    /\ cur = sys.n
    /\ wcrts' = wcrt
    /\ pc' = "outer"
    /\ UNCHANGED <<extvars, sysvars, wcrt, cfg, exit, wcrts_prev, cur, p, w, w_prev, edfvars>>

\* lines 52-55, 32-33: the busy period goes on, p += 1
FPNextP ==
    /\ pc = "wloop"
    /\ w = w_prev
    /\ w > p * period(task_at(cur))
    /\ p < MaxP
    /\ p' = p + 1
    /\ w_prev' = 0
    /\ w' = (p + 1) * wcet(task_at(cur))
    /\ UNCHANGED <<extvars, sysvars, wcrt, cfg, pc, exit, wcrts, wcrts_prev, cur, edfvars>>

FPNext ==
    \/ FPStart
    \/ FPConverged
    \/ FPPass
    \/ FPWStep
    \/ FPLimit
    \/ FPNextTask
    \/ FPPassEnd
    \/ FPNextP

(***************************************************************************)
(* Both EDF analyses.                                                      *)
(***************************************************************************)
\* the outcome of a recursion that ran out of stack frames (Python raises RecursionError,
\* or OverflowError once the length leaves the float range: either way an exception that
\* apply does not catch)
RecursionError == -2

\* the tasks of the task's processor other than the task
others(t) == proc_tasks(processor[t]) \ {t}

\* Processor.tasks in list order
proc_task_seq(q) == SelectSeq([i \in Tasks |-> i], LAMBDA u : processor[u] = q)

RECURSIVE FlattenTo(_, _)
\* ss[1] \o ... \o ss[k]
FlattenTo(ss, k) == IF k = 0 THEN <<>> ELSE FlattenTo(ss, k - 1) \o ss[k]

Flatten(ss) == FlattenTo(ss, Len(ss))

\* a rejection that clears the priorities along with the wcrts
EDFRejectClearing ==
    /\ pc = "start"
    /\ cfg.kind \in {"GEDF", "LEDF"}
    /\ ~is_edf
    /\ wcrt' = reset_wcrt
    /\ priority' = [t \in Tasks |-> DefaultPriority]
    /\ punit' = 1
    /\ pc' = "done"
    /\ exit' = "not_edf"
    /\ UNCHANGED <<extvars, sys, processor, deadline, dunit, cfg, fpvars, cur, edfvars>>

\* the precondition fails: "System is not EDF", reset_wcrt, return
EDFReject ==
    /\ pc = "start"
    /\ cfg.kind \in {"GEDF", "LEDF"}
    /\ ~is_edf
    /\ wcrt' = reset_wcrt
    /\ pc' = "done"
    /\ exit' = "not_edf"
    /\ UNCHANGED <<extvars, sysvars, cfg, fpvars, cur, edfvars>>

\* except LimitFactorReachedException as e: reset_wcrt, or e.response_time on e.task and its successors
edf_recover(wc, t, r) ==
    IF cfg.reset
    THEN reset_wcrt
    ELSE [u \in Tasks |-> IF u = t \/ u \in all_successors(t) THEN r ELSE wc[u]]

\* if max_r > task.wcrt: task.wcrt = max_r
edf_update(wc, t, max_r) == IF max_r > wc[t] THEN [wc EXCEPT ![t] = max_r] ELSE wc

(***************************************************************************)
(* HolisticLocalEDFAnalysis (analysis/holistic_local_edf_analysis.py)      *)
(***************************************************************************)
\* _wi, Eq (1)
local_wi(u, tt, D) ==
    LET pl == Ceil(tt + jitter(u), period(u))
        pd == IF D < deadline[u] THEN 0
              ELSE Floor(jitter(u) + D - deadline[u], period(u)) + 1
        m == Min(pl, pd)
    IN IF m > 0 THEN m * wcet(u) ELSE 0

RECURSIVE local_busy_period(_, _, _)
\* _busy_period, Eq (5), with depth frames of stack left
local_busy_period(t, l_prev, depth) ==
    IF depth = 0 THEN RecursionError
    ELSE LET own == Ceil(l_prev, period(t)) * wcet(t)
             len == own + Sum([u \in Tasks |-> IF u \in others(t)
                                               THEN Ceil(l_prev + jitter(u), period(u)) * wcet(u)
                                               ELSE 0])
         IN IF len = l_prev THEN len ELSE local_busy_period(t, len, depth - 1)

\* _build_set_psi, Eq (4) and Eq (6)
local_build_set_psi(t, busy) ==
    LET psi_ij == UNION { { (pp - 1) * period(u) - jitter(u) + deadline[u] :
                            pp \in {x \in 1..Ceil(busy + jitter(u), period(u)) :
                                      (x - 1) * period(u) - jitter(u) >= 0} } :
                          u \in others(t) }
        psi_d == {deadline[u] : u \in others(t)}
        psi_ab == {(pp - 1) * period(t) + deadline[t] : pp \in 1..Ceil(busy, period(t))}
    IN psi_ij \cup psi_d \cup psi_ab

\* _ra, Eq (9)
local_ra(t, psi, wab) == wab - psi + deadline[t] + jitter(t)

RECURSIVE local_wab(_, _, _, _, _)
\* _wab, Eq (8), with depth frames of stack left
local_wab(t, psi, pp, wab_prev, depth) ==
    IF depth = 0 THEN RecursionError
    ELSE LET wab == pp * wcet(t)
                    + Sum([u \in Tasks |-> IF u \in others(t) THEN local_wi(u, wab_prev, psi) ELSE 0])
         IN IF wab = wab_prev THEN wab ELSE local_wab(t, psi, pp, wab, depth - 1)

\* the (p, psi) pairs _task_analysis goes through, each with its w and r
local_candidates(t, len) ==
    LET all_psi == local_build_set_psi(t, len)
    IN UNION { { LET wab == local_wab(t, psi, pp, pp * wcet(t), MaxDepth)
                 IN [p |-> pp, psi |-> psi, w |-> wab,
                     r |-> IF wab = RecursionError THEN RecursionError ELSE local_ra(t, psi, wab)] :
                 psi \in {x \in all_psi : /\ (pp - 1) * period(t) + deadline[t] <= x
                                          /\ x < pp * period(t) + deadline[t]} } :
               pp \in 1..Ceil(len, period(t)) }

\* _task_analysis: the ways one call can end.  The psi of one p are visited in the
\* iteration order of a Python set, so any raising psi of the first raising p may be the
\* one that ends the call.
local_task_analysis(t) ==
    LET len == local_busy_period(t, wcet(t), MaxDepth)
        cands == local_candidates(t, len)
        raising == {c \in cands : c.w = RecursionError \/ c.r > limit(t)}
        first == {c \in raising : \A d \in raising : c.p <= d.p}
        rs == {c.r : c \in cands} \cup {0}
    IN IF len = RecursionError THEN {[kind |-> "recursion", r |-> 0]}
       ELSE IF raising # {}
            THEN {[kind |-> IF c.w = RecursionError THEN "recursion" ELSE "limit", r |-> c.r] :
                  c \in first}
            ELSE {[kind |-> "ok", r |-> CHOOSE m \in rs : \A x \in rs : x <= m]}

\* lines 70-78: the system is EDF: init_wcrt, the first pass starts
LStart ==
    /\ pc = "start"
    /\ cfg.kind = "LEDF"
    /\ is_edf
    /\ wcrt' = init_wcrt
    /\ changed' = FALSE
    /\ cur' = 1
    /\ pc' = "ltask"
    /\ UNCHANGED <<extvars, sysvars, cfg, exit, fpvars, length, todo>>

\* line 80: _task_analysis of the next task returns
LTask ==
    /\ pc = "ltask"
    /\ cur <= sys.n
    /\ \E o \in local_task_analysis(cur) :
          /\ o.kind = "ok"
          /\ wcrt' = edf_update(wcrt, cur, o.r)
          /\ changed' = (changed \/ o.r > wcrt[cur])
    /\ cur' = cur + 1
    /\ UNCHANGED <<extvars, sysvars, cfg, pc, exit, fpvars, length, todo>>

\* lines 83-91: _task_analysis raises LimitFactorReachedException, apply recovers and returns
LTaskLimit ==
    /\ pc = "ltask"
    /\ cur <= sys.n
    /\ \E o \in local_task_analysis(cur) :
          /\ o.kind = "limit"
          /\ wcrt' = edf_recover(wcrt, cur, o.r)
    /\ pc' = "done"
    /\ exit' = "limit"
    /\ UNCHANGED <<extvars, sysvars, cfg, fpvars, cur, edfvars>>

\* the recursion of _busy_period or _wab runs out of stack: RecursionError leaves apply
LTaskRecursion ==
    /\ pc = "ltask"
    /\ cur <= sys.n
    /\ \E o \in local_task_analysis(cur) : o.kind = "recursion"
    /\ pc' = "done"
    /\ exit' = "RecursionError"
    /\ UNCHANGED <<extvars, sysvars, wcrt, cfg, fpvars, cur, edfvars>>

\* lines 77-79: a pass changed some wcrt, the next pass starts
LPassAgain ==
    /\ pc = "ltask"
    /\ cur = sys.n + 1
    /\ changed
    /\ changed' = FALSE
    /\ cur' = 1
    /\ UNCHANGED <<extvars, sysvars, wcrt, cfg, pc, exit, fpvars, length, todo>>

\* lines 81-82: a pass changed nothing: break, apply returns
LConverged ==
    /\ pc = "ltask"
    /\ cur = sys.n + 1
    /\ ~changed
    /\ pc' = "done"
    /\ exit' = "converged"
    /\ UNCHANGED <<extvars, sysvars, wcrt, cfg, fpvars, cur, edfvars>>

LNext ==
    \/ LStart
    \/ LTask
    \/ LTaskLimit
    \/ LTaskRecursion
    \/ LPassAgain
    \/ LConverged

(***************************************************************************)
(* HolisticGlobalEDFAnalysis (analysis/holistic_global_edf_analysis.py)    *)
(***************************************************************************)
\* _activations, eq (4)
activations(t, len) == Ceil(len + jitter(t), period(t))

RECURSIVE longest_busy_period(_, _, _)
\* _longest_busy_period, with depth frames of stack left
longest_busy_period(q, l_prev, depth) ==
    IF depth = 0 THEN RecursionError
    ELSE LET len == Sum([u \in Tasks |-> IF u \in proc_tasks(q)
                                         THEN Ceil(l_prev + jitter(u), period(u)) * wcet(u)
                                         ELSE 0])
         IN IF len = l_prev THEN len ELSE longest_busy_period(q, len, depth - 1)

\* _set_psi: the list of candidate deadlines of the processor
set_psi(q, busy) ==
    LET ts == proc_task_seq(q)
    IN Flatten([k \in 1..Len(ts) |->
                  [pp \in 1..activations(ts[k], busy) |->
                     (pp - 1) * period(ts[k]) - jitter(ts[k]) + deadline[ts[k]]]])

\* _wi of the global analysis
global_wi(u, tt, D) ==
    LET value == Min(Ceil(tt + jitter(u), period(u)),
                     Floor(jitter(u) + D - deadline[u], period(u)) + 1)
    IN IF value > 0 THEN value * wcet(u) ELSE 0

RECURSIVE wa(_, _, _, _, _)
\* _wa, with depth frames of stack left
wa(t, deadline_activation, pp, wa_prev, depth) ==
    IF depth = 0 THEN RecursionError
    ELSE LET nwa == pp * wcet(t)
                    + Sum([u \in Tasks |-> IF u \in others(t)
                                           THEN global_wi(u, wa_prev, deadline_activation)
                                           ELSE 0])
         IN IF nwa = wa_prev THEN nwa ELSE wa(t, deadline_activation, pp, nwa, depth - 1)

\* _ra of the global analysis
global_ra(t, activation, pp) ==
    LET deadline_activation == activation - jitter(t) + (pp - 1) * period(t) + deadline[t]
        nwa == wa(t, deadline_activation, pp, 0, MaxDepth)
    IN IF nwa = RecursionError THEN RecursionError
       ELSE nwa - activation + jitter(t) - (pp - 1) * period(t)

\* the r of every (p, activation) pair _task_analysis goes through, in the order of the loops
global_rs(t, len) ==
    LET all_psi == set_psi(processor[t], len)
    IN Flatten([pp \in 1..activations(t, len) |->
                  LET lo == (pp - 1) * period(t) - jitter(t) + deadline[t]
                      hi == pp * period(t) - jitter(t) + deadline[t]
                      window == SelectSeq(all_psi, LAMBDA psi : lo <= psi /\ psi < hi)
                  IN [i \in 1..Len(window) |->
                        global_ra(t, window[i] - (pp - 1) * period(t) + jitter(t) - deadline[t], pp)]])

\* _task_analysis of the global analysis: how the call ends
global_task_analysis(t, len) ==
    LET rs == global_rs(t, len)
        raising == {i \in 1..Len(rs) : rs[i] = RecursionError \/ rs[i] > limit(t)}
        vals == {rs[i] : i \in 1..Len(rs)} \cup {0}
    IN IF raising # {}
       THEN LET i == CHOOSE k \in raising : \A j \in raising : k <= j
            IN [kind |-> IF rs[i] = RecursionError THEN "recursion" ELSE "limit", r |-> rs[i]]
       ELSE [kind |-> "ok", r |-> CHOOSE m \in vals : \A x \in vals : x <= m]

\* lines 31-40: the system is EDF: init_wcrt, the first pass starts with the first processor
GStart ==
    /\ pc = "start"
    /\ cfg.kind = "GEDF"
    /\ is_edf
    /\ wcrt' = init_wcrt
    /\ changed' = FALSE
    /\ cur' = 1
    /\ pc' = "gproc"
    /\ UNCHANGED <<extvars, sysvars, cfg, exit, fpvars, length, todo>>

\* _proc_analysis, line 55: the busy period of the next processor is found
GProc ==
    /\ pc = "gproc"
    /\ cur <= sys.nproc
    /\ LET len == longest_busy_period(cur, 0, MaxDepth)
       IN /\ len # RecursionError
          /\ length' = len
    /\ todo' = proc_task_seq(cur)
    /\ pc' = "gtask"
    /\ UNCHANGED <<extvars, sysvars, wcrt, cfg, exit, fpvars, cur, changed>>

\* the recursion of _longest_busy_period runs out of stack: RecursionError leaves apply
GProcRecursion ==
    /\ pc = "gproc"
    /\ cur <= sys.nproc
    /\ longest_busy_period(cur, 0, MaxDepth) = RecursionError
    /\ pc' = "done"
    /\ exit' = "RecursionError"
    /\ UNCHANGED <<extvars, sysvars, wcrt, cfg, fpvars, cur, edfvars>>

\* _proc_analysis, lines 57-58: _task_analysis of the next task of the processor returns
GTask ==
    /\ pc = "gtask"
    /\ todo # <<>>
    /\ LET t == Head(todo)
           o == global_task_analysis(t, length)
       IN /\ o.kind = "ok"
          /\ wcrt' = edf_update(wcrt, t, o.r)
          /\ changed' = (changed \/ o.r > wcrt[t])
    /\ todo' = Tail(todo)
    /\ UNCHANGED <<extvars, sysvars, cfg, pc, exit, fpvars, cur, length>>

\* _task_analysis raises: LimitFactorReachedException is caught (lines 44-52) and apply
\* recovers and returns; a RecursionError of _wa leaves apply
GTaskRaise ==
    /\ pc = "gtask"
    /\ todo # <<>>
    /\ LET t == Head(todo)
           o == global_task_analysis(t, length)
       IN /\ o.kind # "ok"
          /\ wcrt' = IF o.kind = "limit" THEN edf_recover(wcrt, t, o.r) ELSE wcrt
          /\ exit' = IF o.kind = "limit" THEN "limit" ELSE "RecursionError"
    /\ pc' = "done"
    /\ UNCHANGED <<extvars, sysvars, cfg, fpvars, cur, edfvars>>

\* _proc_analysis returns: the next processor
GProcEnd ==
    /\ pc = "gtask"
    /\ todo = <<>>
    /\ cur' = cur + 1
    /\ pc' = "gproc"
    /\ UNCHANGED <<extvars, sysvars, wcrt, cfg, exit, fpvars, edfvars>>

\* lines 38-40: a pass changed some wcrt, the next pass starts
GPassAgain ==
    /\ pc = "gproc"
    /\ cur = sys.nproc + 1
    /\ changed
    /\ changed' = FALSE
    /\ cur' = 1
    /\ UNCHANGED <<extvars, sysvars, wcrt, cfg, pc, exit, fpvars, length, todo>>

\* lines 42-43: a pass changed nothing: break, apply returns
GConverged ==
    /\ pc = "gproc"
    /\ cur = sys.nproc + 1
    /\ ~changed
    /\ pc' = "done"
    /\ exit' = "converged"
    /\ UNCHANGED <<extvars, sysvars, wcrt, cfg, fpvars, cur, edfvars>>

GNext ==
    \/ GStart
    \/ GProc
    \/ GProcRecursion
    \/ GTask
    \/ GTaskRaise
    \/ GProcEnd
    \/ GPassAgain
    \/ GConverged

(***************************************************************************)
(* calculate_priorities (model/analysis_function.py)                       *)
(***************************************************************************)
\* list.sort / sorted is stable, also with reverse=True: t goes behind every task
\* already placed whose deadline is not smaller
\* deadline numerators that stand for the floats nan and inf
NaN == -3

Inf == -4

\* a < b on deadline numerators: every comparison with nan is false
DeadlineLess(a, b) ==
    /\ a # NaN
    /\ b # NaN
    /\ a # Inf
    /\ (b = Inf \/ a < b)

\* the stable descending sort keeps u before a later t unless key(u) < key(t); with nan
\* keys this is the order CPython's sort gives lists of up to two tasks
insert_desc_by(dl, ts, t) ==
    SelectSeq(ts, LAMBDA u : ~DeadlineLess(dl[u], dl[t]))
    \o <<t>>
    \o SelectSeq(ts, LAMBDA u : DeadlineLess(dl[u], dl[t]))

insert_desc(ts, t) == insert_desc_by(deadline, ts, t)

RECURSIVE sorted_desc_by(_, _, _)
\* sorted(ts[1..k], key=lambda t: t.deadline, reverse=True), the deadlines being dl
sorted_desc_by(dl, ts, k) ==
    IF k = 0 THEN <<>> ELSE insert_desc_by(dl, sorted_desc_by(dl, ts, k - 1), ts[k])

\* sorted(ts[1..k], key=lambda t: t.deadline, reverse=True)
sorted_desc_to(ts, k) == sorted_desc_by(deadline, ts, k)

\* sorted(processor.tasks, key=lambda t: t.deadline, reverse=True)
sorted_tasks(q) == sorted_desc_to(proc_task_seq(q), Len(proc_task_seq(q)))

\* a priority that is the rank of the deadline: tasks of equal deadline share it
new_priority_rank(t) ==
    1 + Cardinality({u \in proc_tasks(processor[t]) : deadline[u] > deadline[t]})

\* task.priority = i + 1, i the place of the task in the sorted list of its processor
new_priority(t) ==
    LET ts == sorted_tasks(processor[t])
    IN CHOOSE i \in 1..Len(ts) : ts[i] = t

\* the priorities calculate_priorities leaves when the deadlines are dl (the mapping is
\* the one of the state)
priorities_by(dl) ==
    [t \in Tasks |->
        LET ts == sorted_desc_by(dl, proc_task_seq(processor[t]), Len(proc_task_seq(processor[t])))
        IN CHOOSE i \in 1..Len(ts) : ts[i] = t]

\* calculate_priorities(system): every processor's tasks get priorities by descending
\* deadline; returns whether a priority changed
CalculatePriorities ==
    /\ pc = "start"
    /\ priority' = [t \in Tasks |-> new_priority(t)]
    /\ punit' = 1
    /\ changed' = (\E t \in Tasks : priority[t] # new_priority(t))
    /\ pc' = "prio_done"
    /\ UNCHANGED <<extvars, sys, processor, deadline, dunit, wcrt, cfg, exit, fpvars, cur, length, todo>>

(***************************************************************************)
(* Fractions over a common denominator.                                    *)
(***************************************************************************)
\* Euclid's algorithm on two naturals
gcd[m \in Nat, n \in Nat] == IF n = 0 THEN m ELSE gcd[n, m % n]

\* greatest common divisor of two naturals, GCD(0, 0) = 0
GCD(m, n) == gcd[m, n]

Abs(v) == IF v < 0 THEN -v ELSE v

RECURSIVE GCDTo(_, _)
GCDTo(f, k) == IF k = 0 THEN 0 ELSE GCD(Abs(f[k]), GCDTo(f, k - 1))

\* the numerators f (a sequence) over the denominator u > 0, in lowest terms
Canon(f, u) ==
    LET g == GCD(u, GCDTo(f, Len(f)))
    IN [v |-> [k \in 1..Len(f) |-> f[k] \div g], u |-> u \div g]

\* the largest entry of a non-empty sequence
MaxOf(f) ==
    LET vals == {f[k] : k \in 1..Len(f)}
    IN CHOOSE m \in vals : \A v \in vals : v <= m

(***************************************************************************)
(* PDAssignment (assignment/pd_assignment.py, assignment/assignments.py)   *)
(***************************************************************************)
\* sum_wcet = sum(map(lambda t: t.wcet, flow.tasks))
sum_wcet(f) == Sum([t \in Tasks |-> IF flow(t) = f THEN wcet(t) ELSE 0])

RECURSIVE SumWcetProductTo(_)
\* a common denominator of the deadlines of calculate_local_deadlines
SumWcetProductTo(f) == IF f = 0 THEN 1 ELSE sum_wcet(f) * SumWcetProductTo(f - 1)

PDUnit == SumWcetProductTo(sys.nflows)

\* a deadline that forgets to divide by the sum of the wcets
pd_deadline_undivided(t) == wcet(t) * flow_deadline(t) * PDUnit

\* d = task.wcet * flow.deadline / sum_wcet, over the denominator PDUnit
pd_deadline(t) == wcet(t) * flow_deadline(t) * (PDUnit \div sum_wcet(flow(t)))

\* calculate_local_deadlines
calculate_local_deadlines == [t \in Tasks |-> pd_deadline(t)]

\* globalize_deadlines: task.deadline += tasks[i - 1].deadline along each flow, in chain
\* order, so every deadline becomes the sum of the deadlines up to the task
globalize_deadlines(dl) ==
    [t \in Tasks |->
        LET before == {u \in Tasks : flow(u) = flow(t) /\ u <= t}
        IN IF \E u \in before : dl[u] = NaN THEN NaN
           ELSE IF \E u \in before : dl[u] = Inf THEN Inf
           ELSE Sum([u \in Tasks |-> IF u \in before THEN dl[u] ELSE 0])]

\* normalize_priorities: t.priority = t.priority / max_priority
normalize_priorities(pr, u) == Canon(pr, u * MaxOf(pr))

\* the scenario of the PD distribution: one flow, D = 100, wcets 1, 2, 7, one processor
PDExampleSys ==
    [n |-> 3, nflows |-> 1, nproc |-> 1,
     flowOf |-> <<1, 1, 1>>,
     wcet |-> <<1, 2, 7>>,
     period |-> <<100>>,
     fdeadline |-> <<100>>,
     sched |-> <<"FP">>]

PDOptions == [op : {"PD"}, normalize : BOOLEAN, globalize : BOOLEAN]

\* a system as built, before any assigner ran, and a PDAssignment object
InitPD ==
    /\ \/ /\ sys = PDExampleSys
          /\ processor = <<1, 1, 1>>
       \/ /\ sys \in GenSystems(<<"FP", "FP">>)
          /\ processor \in {m \in [1..sys.n -> 1..2] : m[1] = 1}
    /\ priority = [t \in 1..sys.n |-> DefaultPriority]
    /\ deadline = [t \in 1..sys.n |-> DefaultDeadline]
    /\ dunit = 1
    /\ punit = 1
    /\ wcrt = [t \in 1..sys.n |-> None]
    /\ cfg = [kind |-> "FP", limit_factor |-> LimitFactorDefault, reset |-> FALSE]
    /\ InitLocals
    /\ opt \in PDOptions
    /\ backup = <<>>
    /\ xvec = <<>>
    /\ cost = NoCost
    /\ raised = "none"

\* PDAssignment.apply: local deadlines, optionally globalized, priorities from them,
\* optionally normalized
PDApply ==
    /\ pc = "start"
    /\ opt.op = "PD"
    /\ LET dl0 == calculate_local_deadlines
           dl == IF opt.globalize THEN globalize_deadlines(dl0) ELSE dl0
           d == Canon(dl, PDUnit)
           pr == priorities_by(dl)
           np == IF opt.normalize THEN normalize_priorities(pr, 1) ELSE [v |-> pr, u |-> 1]
       IN /\ deadline' = d.v
          /\ dunit' = d.u
          /\ priority' = np.v
          /\ punit' = np.u
    /\ pc' = "pd_done"
    /\ UNCHANGED <<sys, processor, wcrt, cfg, exit, fpvars, cur, edfvars, extvars>>

PDSpec == InitPD /\ [][PDApply]_vars

(***************************************************************************)
(* backup_assignment / restore_assignment (model/linear_system_utils.py)   *)
(***************************************************************************)
\* the (priority, deadline, processor) of task t, the two numbers as fractions
triple(t) == <<<<priority[t], punit>>, <<deadline[t], dunit>>, processor[t]>>

\* backup_assignment: [(t.priority, t.deadline, t.processor) for t in tasks]
backup_assignment == [t \in Tasks |-> triple(t)]

\* a restore that leaves the processors alone
restore_without_processor(asg) ==
    [priority |-> [t \in Tasks |-> asg[t][1][1]], punit |-> asg[1][1][2],
     deadline |-> [t \in Tasks |-> asg[t][2][1]], dunit |-> asg[1][2][2],
     processor |-> processor]

\* restore_assignment: task.priority, task.deadline, task.processor = the saved tuple
restore_assignment(asg) ==
    [priority |-> [t \in Tasks |-> asg[t][1][1]], punit |-> asg[1][1][2],
     deadline |-> [t \in Tasks |-> asg[t][2][1]], dunit |-> asg[1][2][2],
     processor |-> [t \in Tasks |-> asg[t][3]]]

\* the systems the snapshot utilities are followed on: unit wcets, three shapes
SnapSystems == {g \in GenSystems(<<"FP", "FP">>) : g.period = <<2>> \/ g.period = <<2, 2>>}

\* numerators and denominators of the values written between backup and restore
WrittenValues == {1, 2}

WrittenUnits == {1, 2}

\* a system as built
InitSnap ==
    /\ sys \in {g \in SnapSystems : \A t \in 1..g.n : g.wcet[t] <= 2 /\ g.wcet[1] = 1}
    /\ processor \in {m \in [1..sys.n -> 1..2] : m[1] = 1}
    /\ priority = [t \in 1..sys.n |-> DefaultPriority]
    /\ deadline = [t \in 1..sys.n |-> DefaultDeadline]
    /\ dunit = 1
    /\ punit = 1
    /\ wcrt = [t \in 1..sys.n |-> None]
    /\ cfg = [kind |-> "FP", limit_factor |-> LimitFactorDefault, reset |-> FALSE]
    /\ InitLocals
    /\ opt \in PDOptions
    /\ backup = <<>>
    /\ xvec = <<>>
    /\ cost = NoCost
    /\ raised = "none"

\* a = backup_assignment(system), on a system as built or as an assigner left it
Backup ==
    /\ pc \in {"start", "pd_done"}
    /\ backup' = backup_assignment
    /\ opt' = [op |-> "snapshot", mutations |-> 0]
    /\ pc' = "backed_up"
    /\ UNCHANGED <<sysvars, wcrt, cfg, exit, fpvars, cur, edfvars, xvec, cost, raised>>

\* some code writes the priorities of the tasks
WritePriorities ==
    /\ pc = "backed_up"
    /\ opt.mutations < MaxMutations
    /\ \E v \in [Tasks -> WrittenValues], u \in WrittenUnits :
          /\ priority' = Canon(v, u).v
          /\ punit' = Canon(v, u).u
    /\ opt' = [opt EXCEPT !.mutations = @ + 1]
    /\ UNCHANGED <<sys, processor, deadline, dunit, wcrt, cfg, pc, exit, fpvars, cur, edfvars,
                   backup, xvec, cost, raised>>

\* some code writes the deadlines of the tasks
WriteDeadlines ==
    /\ pc = "backed_up"
    /\ opt.mutations < MaxMutations
    /\ \E v \in [Tasks -> WrittenValues], u \in WrittenUnits :
          /\ deadline' = Canon(v, u).v
          /\ dunit' = Canon(v, u).u
    /\ opt' = [opt EXCEPT !.mutations = @ + 1]
    /\ UNCHANGED <<sys, processor, priority, punit, wcrt, cfg, pc, exit, fpvars, cur, edfvars,
                   backup, xvec, cost, raised>>

\* some code maps the tasks anew
WriteProcessors ==
    /\ pc = "backed_up"
    /\ opt.mutations < MaxMutations
    /\ processor' \in [Tasks -> Procs]
    /\ opt' = [opt EXCEPT !.mutations = @ + 1]
    /\ UNCHANGED <<sys, priority, punit, deadline, dunit, wcrt, cfg, pc, exit, fpvars, cur, edfvars,
                   backup, xvec, cost, raised>>

\* restore_assignment(system, a)
Restore ==
    /\ pc = "backed_up"
    /\ LET r == restore_assignment(backup)
       IN /\ priority' = r.priority
          /\ punit' = r.punit
          /\ deadline' = r.deadline
          /\ dunit' = r.dunit
          /\ processor' = r.processor
    /\ pc' = "restored"
    /\ UNCHANGED <<sys, wcrt, cfg, exit, fpvars, cur, edfvars, extvars>>

SnapNext == PDApply \/ Backup \/ WritePriorities \/ WriteDeadlines \/ WriteProcessors \/ Restore

SnapSpec == InitSnap /\ [][SnapNext]_vars

(***************************************************************************)
(* Parameter handlers (gradient_descent/parameter_handlers.py).  A vector  *)
(* x is [v |-> numerators, u |-> their common denominator].                *)
(***************************************************************************)
\* 1 / (1 + math.exp(-z)) to three decimals, at the arguments z = e[1] / e[2] the model uses
SigmoidTable ==
    {<<0, 1, 500>>, <<1, 2, 622>>, <<1, 1, 731>>, <<2, 1, 881>>}

SigmoidUnit == 1000

\* sigmoid(n / u), in thousandths
sigmoid(n, u) == (CHOOSE e \in SigmoidTable : e[1] * u = n * e[2])[3]

\* the assignment of the state, as a handler leaves it when it changes nothing
same_assignment ==
    [priority |-> priority, punit |-> punit, deadline |-> deadline, dunit |-> dunit,
     processor |-> processor, raised |-> "none"]

\* PriorityExtractor.extract: [sigmoid(t.priority) for t in system.tasks]
priority_extract ==
    [v |-> [t \in Tasks |-> sigmoid(priority[t], punit)], u |-> SigmoidUnit, raised |-> "none"]

\* PriorityExtractor.insert: t.priority = v
priority_insert(asg, xv) ==
    [asg EXCEPT !.priority = Canon(xv.v, xv.u).v, !.punit = Canon(xv.v, xv.u).u]

\* DeadlineExtractor.extract: [sigmoid(t.deadline / max_d) for t in system.tasks]
deadline_extract ==
    LET max_d == MaxOf(deadline)
    IN IF max_d = 0
       THEN [v |-> <<>>, u |-> 1, raised |-> "ZeroDivisionError"]
       ELSE [v |-> [t \in Tasks |-> sigmoid(deadline[t], max_d)], u |-> SigmoidUnit,
             raised |-> "none"]

\* DeadlineExtractor.insert: t.deadline = v * max_d, max_d the largest deadline before
deadline_insert(asg, xv) ==
    LET max_d == MaxOf(asg.deadline)
        d == Canon([t \in Tasks |-> xv.v[t] * max_d], xv.u * asg.dunit)
    IN [asg EXCEPT !.deadline = d.v, !.dunit = d.u]

\* m_vector: 0.55 if task.processor == proc else 0.45, task by task, in hundredths
m_vector ==
    [k \in 1..(sys.n * sys.nproc) |->
        IF processor[((k - 1) \div sys.nproc) + 1] = ((k - 1) % sys.nproc) + 1 THEN 55 ELSE 45]

\* m_vector + the vector of the inner handler, over one denominator
mapping_extract(inner) ==
    IF inner.raised # "none" THEN inner
    ELSE [v |-> [k \in 1..Len(m_vector) |-> m_vector[k] * 10] \o inner.v,
          u |-> SigmoidUnit, raised |-> "none"]

\* sub = x[i*p: i*p+3] for the task of index i (from 0): a slice stops at the end of x
mapping_sub(xv, i) ==
    SubSeq(xv.v, i * sys.nproc + 1, Min(i * sys.nproc + 3, Len(xv.v)))

\* sub.index(max(sub)): the first place of the largest value, from 0
index_of_max(sub) ==
    (CHOOSE k \in 1..Len(sub) : sub[k] = MaxOf(sub) /\ \A j \in 1..(k - 1) : sub[j] # MaxOf(sub)) - 1

\* proc_index for the task of index i
proc_index(xv, i) == index_of_max(mapping_sub(xv, i))

\* x[-t:]
param_part(xv) == [v |-> SubSeq(xv.v, Len(xv.v) - sys.n + 1, Len(xv.v)), u |-> xv.u]

\* the loop `for i in range(t)` of the mapping handlers: procs[proc_index] raises
\* IndexError for the first task whose proc_index is not below p; the tasks before it
\* are mapped already
mapping_insert(asg, xv) ==
    LET failing == {i \in 0..(sys.n - 1) : proc_index(xv, i) >= sys.nproc}
        stop == IF failing = {} THEN sys.n
                ELSE CHOOSE i \in failing : \A j \in failing : i <= j
    IN [asg EXCEPT !.processor = [t \in Tasks |-> IF t - 1 < stop THEN proc_index(xv, t - 1) + 1
                                                   ELSE asg.processor[t]],
                   !.raised = IF failing = {} THEN "none" ELSE "IndexError"]

Handlers == {"PriorityExtractor", "DeadlineExtractor",
             "MappingPriorityExtractor", "MappingDeadlineExtractor"}

IsMapping(h) == h \in {"MappingPriorityExtractor", "MappingDeadlineExtractor"}

\* handler.insert(S, x) on the assignment of the state
handler_insert(h, xv) ==
    LET mapped == IF IsMapping(h) THEN mapping_insert(same_assignment, xv) ELSE same_assignment
        part == IF IsMapping(h) THEN param_part(xv) ELSE xv
    IN IF mapped.raised # "none" THEN mapped
       ELSE IF h \in {"PriorityExtractor", "MappingPriorityExtractor"}
            THEN priority_insert(mapped, part)
            ELSE deadline_insert(mapped, part)

\* handler.extract(S)
handler_extract(h) ==
    LET inner == IF h \in {"PriorityExtractor", "MappingPriorityExtractor"}
                 THEN priority_extract ELSE deadline_extract
    IN IF IsMapping(h) THEN mapping_extract(inner) ELSE inner

\* one flow of two tasks with unit wcets on np FP processors
HandlerSys(np) ==
    [n |-> 2, nflows |-> 1, nproc |-> np,
     flowOf |-> <<1, 1>>,
     wcet |-> <<1, 1>>,
     period |-> <<2>>,
     fdeadline |-> <<3>>,
     sched |-> [q \in 1..np |-> "FP"]]

\* the values of the mapping rows and of the parameter part of x, in hundredths
XMapping == {45, 55}

XParams == {50, 100}

XUnit == 100

\* the vectors of the right length for handler h on a system of t tasks and np processors
Vectors(h, t, np) ==
    IF IsMapping(h)
    THEN {[v |-> m \o q, u |-> XUnit] : m \in [1..(t * np) -> XMapping], q \in [1..t -> XParams]}
    ELSE {[v |-> q, u |-> XUnit] : q \in [1..t -> XParams]}

\* a handler, a system and a vector x
InitHandler ==
    /\ sys \in {HandlerSys(np) : np \in 1..MaxProcs}
    /\ processor = [t \in 1..sys.n |-> 1]
    /\ priority = [t \in 1..sys.n |-> DefaultPriority]
    /\ deadline \in {[t \in 1..sys.n |-> DefaultDeadline], <<1, 2>>}
    /\ dunit = 1
    /\ punit = 1
    /\ wcrt = [t \in 1..sys.n |-> None]
    /\ cfg = [kind |-> "FP", limit_factor |-> LimitFactorDefault, reset |-> FALSE]
    /\ InitLocals
    /\ opt \in [op : {"handler"}, handler : Handlers]
    /\ backup = <<>>
    /\ xvec \in Vectors(opt.handler, sys.n, sys.nproc)
    /\ cost = NoCost
    /\ raised = "none"

\* handler.insert(S, x): the first at pc = "start", then the two inserts of x' = extract(S)
HandlerInsert ==
    /\ pc \in {"start", "extracted", "inserted_once"}
    /\ opt.op = "handler"
    /\ raised = "none"
    /\ LET r == handler_insert(opt.handler, xvec)
       IN /\ priority' = r.priority
          /\ punit' = r.punit
          /\ deadline' = r.deadline
          /\ dunit' = r.dunit
          /\ processor' = r.processor
          /\ raised' = r.raised
    /\ pc' = CASE pc = "start" -> "inserted"
               [] pc = "extracted" -> "inserted_once"
               [] pc = "inserted_once" -> "inserted_twice"
    /\ UNCHANGED <<sys, wcrt, cfg, exit, fpvars, cur, edfvars, opt, backup, xvec, cost>>

\* x' = handler.extract(S), right after the first insert
HandlerExtract ==
    /\ pc = "inserted"
    /\ raised = "none"
    /\ LET r == handler_extract(opt.handler)
       IN /\ xvec' = [v |-> r.v, u |-> r.u]
          /\ raised' = r.raised
    /\ pc' = "extracted"
    /\ UNCHANGED <<sysvars, wcrt, cfg, exit, fpvars, cur, edfvars, opt, backup, cost>>

HandlerNext == HandlerInsert \/ HandlerExtract

HandlerSpec == InitHandler /\ [][HandlerNext]_vars

(***************************************************************************)
(* InvslackCost.compute (gradient_descent/cost_functions.py): the handler  *)
(* insert, the analysis as modelled above, and the cost of its result.     *)
(***************************************************************************)
\* the analysis of cfg.kind, from pc = "start" to pc = "done"
AnalysisNext == FPNext \/ EDFReject \/ LNext \/ GNext

\* a / b > c / d for positive b and d
FracGreater(a, b, c, d) == a * d > c * b

\* a cost measured against the period of the flow
flow_cost_of_period(f) == <<flow_wcrt(f) - sys.period[f], sys.fdeadline[f]>>

\* (flow.wcrt - flow.deadline) / flow.deadline, as <<numerator, denominator>>
flow_cost(f) == <<flow_wcrt(f) - sys.fdeadline[f], sys.fdeadline[f]>>

\* Flow.slack of a flow with a wcrt: (self.deadline - self.wcrt) / self.deadline
flow_slack(f) == <<sys.fdeadline[f] - flow_wcrt(f), sys.fdeadline[f]>>

\* LinearSystem.slack, when every flow has a wcrt: min(slacks)
slack ==
    LET slacks == {flow_slack(f) : f \in 1..sys.nflows}
        m == CHOOSE c \in slacks : \A d \in slacks : ~FracGreater(c[1], c[2], d[1], d[2])
        g == GCD(Abs(m[1]), m[2])
    IN <<m[1] \div g, m[2] \div g>>

\* max([... for flow in S.flows]), in lowest terms
max_cost ==
    LET costs == {flow_cost(f) : f \in 1..sys.nflows}
        m == CHOOSE c \in costs : \A d \in costs : ~FracGreater(d[1], d[2], c[1], c[2])
        g == GCD(Abs(m[1]), m[2])
    IN <<m[1] \div g, m[2] \div g>>

\* LinearSystem.is_schedulable: every flow has a wcrt, and it is within the deadline
is_schedulable == \A f \in 1..sys.nflows : flow_is_schedulable(f)

\* the handlers and vectors of the cost function in the model: every vector of priorities
\* for the FP analysis, which is the one that reads them, and one vector otherwise
CostHandlers == {"PriorityExtractor", "DeadlineExtractor"}

CostVectors(h, t, np) ==
    IF h = "PriorityExtractor" /\ cfg.kind = "FP" THEN Vectors(h, t, np)
    ELSE {[v |-> [k \in 1..t |-> IF k = 2 THEN 100 ELSE 50], u |-> XUnit]}

\* a system, an analysis and a vector x; the EDF analyses read integer local deadlines,
\* and so get the handler that leaves the deadlines alone
InitCost ==
    /\ \/ /\ sys \in GenSystems(<<"FP", "FP">>)
          /\ deadline = [t \in 1..sys.n |-> t]
          /\ cfg \in Configs(LimitFactors)
          /\ opt \in [op : {"cost"}, handler : CostHandlers]
       \/ /\ sys \in GenSystems(<<"EDF", "EDF">>)
          /\ deadline \in {[t \in 1..sys.n |-> d] : d \in LocalDeadlines}
          /\ cfg \in {c \in Configs(LimitFactors) : c.kind # "FP"}
          /\ opt = [op |-> "cost", handler |-> "PriorityExtractor"]
    /\ processor \in {m \in [1..sys.n -> 1..2] : m[1] = 1}
    /\ priority = [t \in 1..sys.n |-> DefaultPriority]
    /\ dunit = 1
    /\ punit = 1
    /\ wcrt = [t \in 1..sys.n |-> None]
    /\ InitLocals
    /\ backup = <<>>
    /\ xvec \in CostVectors(opt.handler, sys.n, sys.nproc)
    /\ cost = NoCost
    /\ raised = "none"

\* lines 16-17: a = backup_assignment(S); self.parameter_handler.insert(S, x);
\* the call of the analysis comes next
CostStart ==
    /\ pc = "start"
    /\ opt.op = "cost"
    /\ backup = <<>>
    /\ backup' = backup_assignment
    /\ LET r == handler_insert(opt.handler, xvec)
       IN /\ priority' = r.priority
          /\ punit' = r.punit
          /\ deadline' = r.deadline
          /\ dunit' = r.dunit
          /\ processor' = r.processor
          /\ raised' = r.raised
    /\ UNCHANGED <<sys, wcrt, cfg, pc, exit, fpvars, cur, edfvars, opt, xvec, cost>>

\* line 18 left by an exception of the analysis, or line 19 on a flow whose wcrt is None
\* (None - flow.deadline is a TypeError): compute is left at once
CostRaise ==
    /\ pc = "done"
    /\ opt.op = "cost"
    /\ exit = "RecursionError" \/ \E f \in 1..sys.nflows : flow_wcrt(f) = None
    /\ raised' = IF exit = "RecursionError" THEN "RecursionError" ELSE "TypeError"
    /\ pc' = "raised"
    /\ UNCHANGED <<sysvars, wcrt, cfg, exit, fpvars, cur, edfvars, opt, backup, xvec, cost>>

\* lines 19-21: the cost, restore_assignment(S, a), return cost
CostReturn ==
    /\ pc = "done"
    /\ opt.op = "cost"
    /\ exit # "RecursionError"
    /\ \A f \in 1..sys.nflows : flow_wcrt(f) # None
    /\ cost' = max_cost
    /\ LET r == restore_assignment(backup)
       IN /\ priority' = r.priority
          /\ punit' = r.punit
          /\ deadline' = r.deadline
          /\ dunit' = r.dunit
          /\ processor' = r.processor
    /\ pc' = "computed"
    /\ UNCHANGED <<sys, wcrt, cfg, exit, fpvars, cur, edfvars, opt, backup, xvec, raised>>

CostNext ==
    \/ CostStart
    \/ (opt.op = "cost" /\ backup # <<>> /\ AnalysisNext)
    \/ CostRaise
    \/ CostReturn

CostSpec == InitCost /\ [][CostNext]_vars

(***************************************************************************)
(* HOPAssignment.apply (assignment/hopa_assignment.py) with the FP         *)
(* analysis.  Its locals are fields of opt.  The floats of                 *)
(* update_local_deadlines are records [k, n, d]: the fraction n / d        *)
(* ("fin"), n / d times sys.float_info.max ("max"), inf, -inf or nan.      *)
(***************************************************************************)
\* the number of iterations per k-pair the model follows
MaxIterations == 2

\* sys.float_info.max, which clean_response_times writes in the place of None: any number
\* above every wcrt an analysis returns
FloatMax == 1000000

\* float("-inf") as a fraction
NegInf == <<-1, 0>>

RECURSIVE LCMTo(_, _)
\* the least common multiple of f[1], ..., f[k]
LCMTo(f, k) ==
    IF k = 0 THEN 1
    ELSE LET m == LCMTo(f, k - 1)
         IN (m \div GCD(m, f[k])) * f[k]

\* the float n / d, d > 0
Fin(n, d) ==
    LET g == GCD(Abs(n), d)
    IN [k |-> "fin", n |-> n \div g, d |-> d \div g]

\* the float (n / d) * sys.float_info.max, 0 < n / d <= 1
Big(n, d) ==
    LET g == GCD(n, d)
    IN [k |-> "max", n |-> n \div g, d |-> d \div g]

\* the fraction a.n / a.d times b.n / b.d, for the signs a.d > 0 and b.d > 0
Times(a, b) ==
    LET g == GCD(Abs(a.n), b.d)
        h == GCD(Abs(b.n), a.d)
    IN [n |-> (a.n \div g) * (b.n \div h), d |-> (a.d \div h) * (b.d \div g)]

\* the fraction a.n / a.d plus b.n / b.d
Plus(a, b) ==
    LET g == GCD(a.d, b.d)
    IN [n |-> a.n * (b.d \div g) + b.n * (a.d \div g), d |-> (a.d \div g) * b.d]

\* a.n / a.d > b.n / b.d
Above(a, b) ==
    LET g == GCD(a.d, b.d)
    IN a.n * (b.d \div g) > b.n * (a.d \div g)

\* the fraction a.n / a.d over b.n / b.d, b.n > 0
Over(a, b) == Times(a, [n |-> b.d, d |-> b.n])

One == [n |-> 1, d |-> 1]

FNaN == [k |-> "nan", n |-> 0, d |-> 1]

FInf == [k |-> "inf", n |-> 0, d |-> 1]

FNegInf == [k |-> "-inf", n |-> 0, d |-> 1]

IsZero(a) == a.k = "fin" /\ a.n = 0

\* a + b.  A sum above sys.float_info.max is inf; a number added to a multiple of
\* sys.float_info.max is lost in the rounding
FAdd(a, b) ==
    IF a.k = "nan" \/ b.k = "nan" THEN FNaN
    ELSE IF a.k = "fin" /\ b.k = "fin" THEN Fin(Plus(a, b).n, Plus(a, b).d)
    ELSE IF a.k = "fin" THEN b
    ELSE IF b.k = "fin" THEN a
    ELSE IF a.k = "max" /\ b.k = "max"
         THEN IF Above(Plus(a, b), One) THEN FInf ELSE Big(Plus(a, b).n, Plus(a, b).d)
    ELSE IF a.k = "max" THEN b
    ELSE IF b.k = "max" THEN a
    ELSE IF a.k = b.k THEN a
    ELSE FNaN

\* abs(a)
FAbs(a) ==
    IF a.k = "-inf" THEN FInf
    ELSE IF a.k = "fin" THEN Fin(Abs(a.n), a.d)
    ELSE a

\* a > b, for a and b that are no multiples of sys.float_info.max
FGreater(a, b) ==
    IF a.k = "nan" \/ b.k = "nan" THEN FALSE
    ELSE IF a.k = "inf" THEN b.k # "inf"
    ELSE IF a.k = "-inf" \/ b.k = "inf" THEN FALSE
    ELSE IF b.k = "-inf" THEN TRUE
    ELSE Above(a, b)

\* a * b for a >= 0 and b >= 0.  A product above sys.float_info.max is inf
FMul(a, b) ==
    IF a.k = "nan" \/ b.k = "nan" THEN FNaN
    ELSE IF IsZero(a) \/ IsZero(b)
         THEN IF a.k = "inf" \/ b.k = "inf" THEN FNaN ELSE Fin(0, 1)
    ELSE IF a.k = "inf" \/ b.k = "inf" THEN FInf
    ELSE IF a.k = "fin" /\ b.k = "fin" THEN Fin(Times(a, b).n, Times(a, b).d)
    ELSE IF a.k = "max" /\ b.k = "max" THEN FInf
    ELSE IF Above(Times(a, b), One) THEN FInf
    ELSE Big(Times(a, b).n, Times(a, b).d)

\* a / b for b > 0; b = 0 raises ZeroDivisionError ("zde").  A number over a multiple of
\* sys.float_info.max is taken as 0
FDiv(a, b) ==
    IF IsZero(b) THEN [k |-> "zde", n |-> 0, d |-> 1]
    ELSE IF a.k = "nan" \/ b.k = "nan" THEN FNaN
    ELSE IF b.k = "inf"
         THEN IF a.k \in {"inf", "-inf"} THEN FNaN ELSE Fin(0, 1)
    ELSE IF a.k \in {"inf", "-inf"} THEN a
    ELSE IF a.k = b.k THEN Fin(Over(a, b).n, Over(a, b).d)
    ELSE IF a.k = "fin" THEN Fin(0, 1)
    ELSE IF Above(Over(a, b), One) THEN FInf
    ELSE Big(Over(a, b).n, Over(a, b).d)

\* a * b for numbers a and b
FMulSigned(a, b) == Fin(Times(a, b).n, Times(a, b).d)

RECURSIVE FSumTo(_, _)
\* sum(s[1..k])
FSumTo(s, k) == IF k = 0 THEN Fin(0, 1) ELSE FAdd(FSumTo(s, k - 1), s[k])

RECURSIVE FMaxTo(_, _)
\* max(s[1..k]): a later item replaces the largest so far only if it is greater
FMaxTo(s, k) ==
    IF k = 1 THEN s[1]
    ELSE LET m == FMaxTo(s, k - 1)
         IN IF FGreater(s[k], m) THEN s[k] ELSE m

\* task.deadline as a float
deadline_value(t) ==
    IF deadline[t] = NaN THEN FNaN
    ELSE IF deadline[t] = Inf THEN FInf
    ELSE Fin(deadline[t], dunit)

\* save_task_excess: (wcrt - d) * flow.wcrt / flow.deadline if d <= period,
\* (wcrt + jitter - d) * flow.wcrt / flow.deadline if d > period, else 0.  With a wcrt of
\* FloatMax the flow's wcrt is FloatMax too, and the product is inf
save_task_excess(t) ==
    LET d == deadline_value(t)
    IN IF d.k = "nan" THEN Fin(0, 1)
       ELSE IF d.k = "inf" THEN FNegInf
       ELSE IF wcrt[t] = FloatMax THEN FInf
       ELSE IF d.n <= period(t) * d.d
            THEN FMulSigned(Fin(wcrt[t] * d.d - d.n, d.d),
                            Fin(flow_wcrt(flow(t)), flow_deadline(t)))
            ELSE FMulSigned(Fin((wcrt[t] + jitter(t)) * d.d - d.n, d.d),
                            Fin(flow_wcrt(flow(t)), flow_deadline(t)))

\* save_proc_excess: sum([task.excess for task in proc.tasks]), the task excesses being ex
save_proc_excess(ex, q) ==
    LET ts == proc_task_seq(q)
    IN FSumTo([i \in 1..Len(ts) |-> ex[ts[i]]], Len(ts))

\* save_flow_mex: max of abs(task.excess) over the flow
save_flow_mex(ex, f) ==
    LET ts == SelectSeq([i \in Tasks |-> i], LAMBDA u : flow(u) = f)
    IN FMaxTo([i \in 1..Len(ts) |-> FAbs(ex[ts[i]])], Len(ts))

\* save_proc_mex: max of abs(proc.excess) over the processors, the processor excesses being pe
save_proc_mex(pe) == FMaxTo([q \in Procs |-> FAbs(pe[q])], sys.nproc)

\* 1 + excess / (k * mex) if k * mex != 0 else sys.float_info.max; k = k[1] / k[2]
factor(k, excess, mex) ==
    IF IsZero(mex) THEN Big(1, 1)
    ELSE FAdd(Fin(1, 1), FDiv(excess, FMul(Fin(k[1], k[2]), mex)))

\* save_local_deadline: task.deadline * second * third
save_local_deadline(t, ka, kr, ex, pe, mex, fe) ==
    FMul(FMul(deadline_value(t), factor(kr, pe[processor[t]], mex)),
         factor(ka, ex[t], fe[flow(t)]))

\* adjust_local_deadlines: task.deadline * flow.deadline / d_sum
adjust_local_deadlines(raw) ==
    [t \in Tasks |->
        LET ts == SelectSeq([i \in Tasks |-> i], LAMBDA u : flow(u) = flow(t))
            d_sum == FSumTo([i \in 1..Len(ts) |-> raw[ts[i]]], Len(ts))
        IN FDiv(FMul(raw[t], Fin(flow_deadline(t), 1)), d_sum)]

\* the floats vals as deadline numerators over one denominator; sys.float_info.max is
\* FloatMax
deadlines_of(vals) ==
    LET num == [t \in Tasks |-> IF vals[t].k = "fin" THEN vals[t].n
                                ELSE IF vals[t].k = "max" THEN vals[t].n * FloatMax
                                ELSE 0]
        dens == [t \in Tasks |-> vals[t].d]
        unit == LCMTo(dens, sys.n)
        c == Canon([t \in Tasks |-> num[t] * (unit \div dens[t])], unit)
    IN [v |-> [t \in Tasks |-> IF vals[t].k \in {"fin", "max"} THEN c.v[t]
                               ELSE IF vals[t].k = "nan" THEN NaN ELSE Inf],
        u |-> c.u]

\* update_local_deadlines(system, ka, kr).  When line 162 raises ZeroDivisionError at a
\* flow, the flows before it are adjusted and the other tasks keep the unadjusted deadlines
update_local_deadlines(ka, kr) ==
    LET ex == [t \in Tasks |-> save_task_excess(t)]
        pe == [q \in Procs |-> save_proc_excess(ex, q)]
        fe == [f \in 1..sys.nflows |-> save_flow_mex(ex, f)]
        mex == save_proc_mex(pe)
        raw == [t \in Tasks |-> save_local_deadline(t, ka, kr, ex, pe, mex, fe)]
        adj == adjust_local_deadlines(raw)
        zero == {flow(t) : t \in {u \in Tasks : adj[u].k = "zde"}}
        dl == deadlines_of([t \in Tasks |->
                  IF \E f \in zero : f <= flow(t) THEN raw[t] ELSE adj[t]])
    IN [v |-> dl.v, u |-> dl.u, raised |-> zero # {}]

\* clean_response_times: None becomes sys.float_info.max
clean_response_times == [t \in Tasks |-> IF wcrt[t] = None THEN FloatMax ELSE wcrt[t]]

\* systems of one or two flows and up to two tasks
HOPAShapes == {<<1>>, <<2>>, <<1, 1>>, <<2, 1>>}

HOPADeadlines == {2, 3}

HOPASystems ==
    UNION { { [n |-> Sum(sh), nflows |-> Len(sh), nproc |-> 2,
               flowOf |-> FlowOfShape(sh),
               wcet |-> wc,
               period |-> [f \in 1..Len(sh) |-> T],
               fdeadline |-> [f \in 1..Len(sh) |-> D],
               sched |-> <<"FP", "FP">>] :
              wc \in IF Sum(sh) > 2 THEN {[t \in 1..Sum(sh) |-> 1]}
                      ELSE [1..Sum(sh) -> 1..MaxWcet],
              T \in Periods, D \in HOPADeadlines } :
            sh \in HOPAShapes }

\* k_pairs of the model: (2.0, 2.0) and (1.5, 1.5) of default_k_pairs, as fractions
KPairs == {<<[ka |-> <<2, 1>>, kr |-> <<2, 1>>], [ka |-> <<3, 2>>, kr |-> <<3, 2>>]>>}

\* the limit factor of the analysis HOPA is given
HOPALimitFactors == {2}

\* HOPAssignment.__init__
HOPAOptions ==
    [op : {"HOPA"}, iterations : {MaxIterations}, k_pairs : KPairs, patience0 : {1, 2},
     over_iterations0 : {0, 1}, globalize : BOOLEAN, normalize : BOOLEAN]

\* the locals of apply before line 30
HOPALocals ==
    [phase |-> "init", k |-> 0, i |-> 0, patience |-> 0, over_iterations |-> 0,
     optimizing |-> FALSE, best_slack |-> NegInf, best_assignment |-> <<>>,
     iterations_to_sched |-> -1, updated |-> [v |-> <<>>, u |-> 1, raised |-> FALSE],
     stop |-> FALSE, unchanged |-> 0]

InitHOPA ==
    /\ sys \in HOPASystems
    /\ processor \in {m \in [1..sys.n -> 1..2] : m[1] = 1}
    /\ priority = [t \in 1..sys.n |-> DefaultPriority]
    /\ deadline = [t \in 1..sys.n |-> DefaultDeadline]
    /\ dunit = 1
    /\ punit = 1
    /\ wcrt = [t \in 1..sys.n |-> None]
    /\ cfg \in {c \in Configs(HOPALimitFactors) : c.kind = "FP"}
    /\ InitLocals
    /\ opt \in {o @@ HOPALocals : o \in HOPAOptions}
    /\ backup = <<>>
    /\ xvec = <<>>
    /\ cost = NoCost
    /\ raised = "none"

\* a counter that is never set back
next_patience_no_reset(ch) == opt.patience - 1

\* patience = patience - 1 if not changed else self.patience
next_patience(ch) == IF ch THEN opt.patience0 ELSE opt.patience - 1

\* the locals of the analysis before a new call of system.apply(self.analysis)
AnalysisRestart ==
    /\ pc' = "start"
    /\ exit' = "none"
    /\ wcrts' = <<>>
    /\ wcrts_prev' = <<>>
    /\ cur' = 0
    /\ p' = 0
    /\ w' = 0
    /\ w_prev' = 0

\* lines 30-53: the PD deadlines, the first best_assignment, and the head of the first
\* iteration up to the call of the analysis
HOPAStart ==
    /\ pc = "start"
    /\ opt.op = "HOPA"
    /\ opt.phase = "init"
    /\ \E pd \in {Canon(calculate_local_deadlines, PDUnit)} :
       \E dl \in {IF opt.globalize THEN globalize_deadlines(pd.v) ELSE pd.v} :
       \E pr \in {priorities_by(dl)} :
       \E ch \in {\E t \in Tasks : priority[t] # pr[t] * punit} :
          /\ deadline' = dl
          /\ dunit' = pd.u
          /\ priority' = pr
          /\ punit' = 1
          /\ changed' = ch
          /\ opt' = [opt EXCEPT !.phase = "iterating", !.k = 1, !.i = 1,
                                !.over_iterations = opt.over_iterations0,
                                !.patience = IF ch THEN opt.patience0 ELSE opt.patience0 - 1,
                                !.unchanged = IF ch THEN 0 ELSE 1,
                                !.best_assignment = [t \in Tasks |->
                                    <<<<priority[t], punit>>, <<dl[t], pd.u>>, processor[t]>>]]
    /\ UNCHANGED <<sys, processor, wcrt, cfg, pc, exit, fpvars, cur, length, todo,
                   backup, xvec, cost, raised>>

\* line 56: self.clean_response_times(system), once the analysis of an iteration returned
HOPAClean ==
    /\ pc = "done"
    /\ opt.op = "HOPA"
    /\ opt.phase = "iterating"
    /\ wcrt' = clean_response_times
    /\ pc' = "cleaned"
    /\ UNCHANGED <<sysvars, cfg, exit, fpvars, cur, edfvars, extvars>>

\* a test that takes every slack as an improvement
improved_always == TRUE

\* slack > best_slack
improved == FracGreater(slack[1], slack[2], opt.best_slack[1], opt.best_slack[2])

\* lines 60-63: best_slack and best_assignment after the analysis of an iteration
best_after == IF improved
              THEN [slack |-> slack, assignment |-> backup_assignment]
              ELSE [slack |-> opt.best_slack, assignment |-> opt.best_assignment]

\* an optimize mode that lasts only while the system is schedulable
optimizing_while_schedulable == is_schedulable /\ opt.over_iterations > 0

\* lines 72-76
optimizing_after == opt.optimizing \/ (is_schedulable /\ opt.over_iterations > 0)

over_iterations_after == IF optimizing_after THEN opt.over_iterations - 1 ELSE opt.over_iterations

\* lines 78-83
stop_after ==
    \/ (~optimizing_after /\ is_schedulable)
    \/ (optimizing_after /\ over_iterations_after < 0)
    \/ opt.patience <= 0

\* the locals after lines 60-83
locals_after ==
    [opt EXCEPT !.best_slack = best_after.slack,
                !.best_assignment = best_after.assignment,
                !.iterations_to_sched = IF is_schedulable /\ opt.iterations_to_sched < 0
                                        THEN (opt.k - 1) * opt.iterations + opt.i
                                        ELSE opt.iterations_to_sched,
                !.optimizing = optimizing_after,
                !.over_iterations = over_iterations_after]

\* lines 60-83 and 92-95: the loops are left; the best assignment is inserted and the
\* analysis is called on it
HOPAStop ==
    /\ pc = "cleaned"
    /\ opt.op = "HOPA"
    /\ stop_after
    /\ \E r \in {restore_assignment(best_after.assignment)} :
          /\ priority' = r.priority
          /\ punit' = r.punit
          /\ deadline' = r.deadline
          /\ dunit' = r.dunit
          /\ processor' = r.processor
    /\ opt' = [locals_after EXCEPT !.phase = "final", !.stop = TRUE]
    /\ AnalysisRestart
    /\ UNCHANGED <<sys, wcrt, cfg, edfvars, backup, xvec, cost, raised>>

\* line 85 raises the ZeroDivisionError of line 162, after lines 60-83
ZeroDivision(upd) ==
    /\ deadline' = upd.v
    /\ dunit' = upd.u
    /\ opt' = [locals_after EXCEPT !.updated = upd]
    /\ pc' = "raised"
    /\ raised' = "ZeroDivisionError"
    /\ UNCHANGED <<sys, processor, priority, punit, wcrt, cfg, exit, fpvars, cur, edfvars,
                   backup, xvec, cost>>

\* lines 60-87 and 47-53: no stop; update_local_deadlines, globalize, and the head of the
\* next iteration of the same k-pair
HOPAIterate ==
    /\ pc = "cleaned"
    /\ opt.op = "HOPA"
    /\ ~stop_after
    /\ opt.i < opt.iterations
    /\ \E upd \in {update_local_deadlines(opt.k_pairs[opt.k].ka, opt.k_pairs[opt.k].kr)} :
       \E dl \in {IF opt.globalize THEN globalize_deadlines(upd.v) ELSE upd.v} :
       \E pr \in {priorities_by(dl)} :
       \E ch \in {\E t \in Tasks : priority[t] # pr[t] * punit} :
          IF upd.raised THEN ZeroDivision(upd)
          ELSE /\ deadline' = dl
               /\ dunit' = upd.u
               /\ priority' = pr
               /\ punit' = 1
               /\ changed' = ch
               /\ opt' = [locals_after EXCEPT !.i = opt.i + 1,
                                              !.patience = next_patience(ch),
                                              !.unchanged = IF ch THEN 0 ELSE @ + 1,
                                              !.updated = upd]
               /\ AnalysisRestart
               /\ UNCHANGED <<sys, processor, wcrt, cfg, length, todo, backup, xvec, cost,
                              raised>>

\* lines 60-87 and 44-53: no stop, but the iterations of the k-pair are used up;
\* update_local_deadlines and globalize still run, then the next k-pair starts from the
\* best assignment
HOPANextPair ==
    /\ pc = "cleaned"
    /\ opt.op = "HOPA"
    /\ ~stop_after
    /\ opt.i = opt.iterations
    /\ opt.k < Len(opt.k_pairs)
    /\ \E upd \in {update_local_deadlines(opt.k_pairs[opt.k].ka, opt.k_pairs[opt.k].kr)} :
       \E r \in {restore_assignment(best_after.assignment)} :
       \E pr \in {priorities_by(r.deadline)} :
       \E ch \in {\E t \in Tasks : r.priority[t] # pr[t] * r.punit} :
          IF upd.raised THEN ZeroDivision(upd)
          ELSE /\ deadline' = r.deadline
               /\ dunit' = r.dunit
               /\ processor' = r.processor
               /\ priority' = pr
               /\ punit' = 1
               /\ changed' = ch
               /\ opt' = [locals_after EXCEPT !.k = opt.k + 1, !.i = 1,
                                              !.patience = next_patience(ch),
                                              !.unchanged = IF ch THEN 0 ELSE @ + 1,
                                              !.updated = upd]
               /\ AnalysisRestart
               /\ UNCHANGED <<sys, wcrt, cfg, length, todo, backup, xvec, cost, raised>>

\* lines 60-87 and 92-95: no stop, and the last iteration of the last k-pair is over
HOPAExhausted ==
    /\ pc = "cleaned"
    /\ opt.op = "HOPA"
    /\ ~stop_after
    /\ opt.i = opt.iterations
    /\ opt.k = Len(opt.k_pairs)
    /\ \E upd \in {update_local_deadlines(opt.k_pairs[opt.k].ka, opt.k_pairs[opt.k].kr)} :
       \E r \in {restore_assignment(best_after.assignment)} :
          IF upd.raised THEN ZeroDivision(upd)
          ELSE /\ priority' = r.priority
               /\ punit' = r.punit
               /\ deadline' = r.deadline
               /\ dunit' = r.dunit
               /\ processor' = r.processor
               /\ opt' = [locals_after EXCEPT !.phase = "final", !.updated = upd]
               /\ AnalysisRestart
               /\ UNCHANGED <<sys, wcrt, cfg, edfvars, backup, xvec, cost, raised>>

\* lines 96-100: the analysis of the best assignment returned; normalize_priorities
HOPAReturn ==
    /\ pc = "done"
    /\ opt.op = "HOPA"
    /\ opt.phase = "final"
    /\ LET n == IF opt.normalize THEN normalize_priorities(priority, punit)
                ELSE [v |-> priority, u |-> punit]
       IN /\ priority' = n.v
          /\ punit' = n.u
    /\ pc' = "returned"
    /\ opt' = [opt EXCEPT !.phase = "returned"]
    /\ UNCHANGED <<sys, processor, deadline, dunit, wcrt, cfg, exit, fpvars, cur, edfvars,
                   backup, xvec, cost, raised>>

HOPANext ==
    \/ HOPAStart
    \/ (opt.op = "HOPA" /\ opt.phase \in {"iterating", "final"} /\ FPNext)
    \/ HOPAClean
    \/ HOPAStop
    \/ HOPAIterate
    \/ HOPANextPair
    \/ HOPAExhausted
    \/ HOPAReturn

HOPASpec == InitHOPA /\ [][HOPANext]_vars

(***************************************************************************)
(* GradientDescentOptimizer.apply (gradient_descent/gradient_optimizer.py) *)
(* with PriorityExtractor, InvslackCost over the FP analysis,              *)
(* SequentialGradientFunction and ThresholdStopFunction, called twice on   *)
(* the same input system.  Floats are fractions [n, d] in lowest terms.    *)
(* sigmoid(z) at a z outside SigmoidTable is kept as z with the mark sig:  *)
(* sigmoid is strictly increasing, so marked vectors compare as their z.   *)
(***************************************************************************)
Fr(n, d) ==
    LET g == GCD(Abs(n), d)
    IN [n |-> n \div g, d |-> d \div g]

FrAdd(a, b) == Fr(Plus(a, b).n, Plus(a, b).d)

FrNeg(a) == [n |-> -a.n, d |-> a.d]

FrSub(a, b) == FrAdd(a, FrNeg(b))

FrAbs(a) == [n |-> Abs(a.n), d |-> a.d]

\* a / b, b # 0
FrDiv(a, b) == IF b.n > 0 THEN Over(a, b) ELSE Over(FrNeg(a), FrNeg(b))

RECURSIVE FrSumTo(_, _)
\* sum(s[1..k])
FrSumTo(s, k) == IF k = 0 THEN [n |-> 0, d |-> 1] ELSE FrAdd(FrSumTo(s, k - 1), s[k])

RECURSIVE FrPower(_, _)
\* b ** t
FrPower(b, t) == IF t = 0 THEN One ELSE Times(b, FrPower(b, t - 1))

\* the floats of the vector xv
entries(xv) == [i \in 1..Len(xv.v) |-> Fr(xv.v[i], xv.u)]

\* the floats fs as a vector over one denominator
vector(fs, sig) ==
    LET unit == LCMTo([i \in 1..Len(fs) |-> fs[i].d], Len(fs))
    IN [v |-> [i \in 1..Len(fs) |-> fs[i].n * (unit \div fs[i].d)], u |-> unit, sig |-> sig]

\* PriorityExtractor.extract on priorities pr / pu: [sigmoid(t.priority) for t in system.tasks]
gd_extract(pr, pu) ==
    IF \A t \in Tasks : \E e \in SigmoidTable : e[1] * pu = pr[t] * e[2]
    THEN [v |-> [t \in Tasks |-> sigmoid(pr[t], pu)], u |-> SigmoidUnit, sig |-> FALSE]
    ELSE [v |-> pr, u |-> pu, sig |-> TRUE]

\* DeadlineExtractor.extract on deadlines dl / du: [sigmoid(t.deadline / max_d) ...]; a
\* vector outside the table of sigmoid is kept as the deadlines it is the sigmoid of
gd_extract_deadlines(dl, du) ==
    IF \A t \in Tasks : \E e \in SigmoidTable : e[1] * MaxOf(dl) = dl[t] * e[2]
    THEN [v |-> [t \in Tasks |-> sigmoid(dl[t], MaxOf(dl))], u |-> SigmoidUnit, sig |-> FALSE]
    ELSE [v |-> dl, u |-> du, sig |-> TRUE]

\* the values of the parameter of the handler in the assignment asg
handled(asg) ==
    IF opt.handler = "DeadlineExtractor"
    THEN <<asg.deadline, asg.dunit>>
    ELSE <<asg.priority, asg.punit>>

\* self.parameter_handler.extract(S) on a system whose handled parameter is b[1] / b[2]
extract(b) ==
    IF opt.handler = "DeadlineExtractor"
    THEN gd_extract_deadlines(b[1], b[2])
    ELSE gd_extract(b[1], b[2])

\* self.parameter_handler.insert(S, xv) on a system whose handled parameter is b[1] / b[2]:
\* PriorityExtractor writes t.priority = v, DeadlineExtractor t.deadline = v * max_d with
\* max_d the largest deadline of S; of a vector kept as the sigmoid of deadlines the
\* deadlines stay, with the ratio of max_d to their largest as scale
insert(b, xv) ==
    IF opt.handler = "DeadlineExtractor"
    THEN IF xv.sig
         THEN [v |-> xv.v, u |-> xv.u, sig |-> TRUE,
               scale |-> <<MaxOf(b[1]) * xv.u, b[2] * MaxOf(xv.v)>>]
         ELSE [v |-> Canon([t \in Tasks |-> xv.v[t] * MaxOf(b[1])], xv.u * b[2]).v,
               u |-> Canon([t \in Tasks |-> xv.v[t] * MaxOf(b[1])], xv.u * b[2]).u,
               sig |-> FALSE, scale |-> <<1, 1>>]
    ELSE [v |-> Canon(xv.v, xv.u).v, u |-> Canon(xv.v, xv.u).u, sig |-> xv.sig,
          scale |-> <<1, 1>>]

\* restore_assignment(S, a) of compute, line 20, written to the system
Restored(r) ==
    /\ priority' = r.priority
    /\ punit' = r.punit
    /\ deadline' = r.deadline
    /\ dunit' = r.dunit

\* float("inf") as a cost
InfCost == <<1, 0>>

\* the limit of the ThresholdStopFunction in the model; its threshold is the default 0
StopLimits == {1}

\* a stop function as constructed, or after reset
FreshStop == [best |-> InfCost, xb |-> <<>>]

\* should_stop with <= for <: the last of the x of least cost is kept
should_stop_keeping_last(stop, x, c) ==
    IF ~FracGreater(c[1], c[2], stop.best[1], stop.best[2])
    THEN [best |-> c, xb |-> x]
    ELSE stop

\* ThresholdStopFunction.should_stop, lines 17-19, and FixedIterationsStop.should_stop,
\* lines 40-42: the best cost and its x
should_stop(stop, x, c) ==
    IF FracGreater(stop.best[1], stop.best[2], c[1], c[2])
    THEN [best |-> c, xb |-> x]
    ELSE stop

\* a stop at t >= limit
stops_from_limit(c) ==
    IF opt.stopf = "FixedIterationsStop"
    THEN opt.t >= opt.limit
    ELSE FracGreater(opt.threshold, 1, c[1], c[2]) \/ opt.t >= opt.limit

\* ThresholdStopFunction.should_stop, line 20: cost < self.threshold or t > self.limit;
\* FixedIterationsStop.should_stop, line 43: t > self.iterations
stops(c) ==
    IF opt.stopf = "FixedIterationsStop"
    THEN opt.t > opt.limit
    ELSE FracGreater(opt.threshold, 1, c[1], c[2]) \/ opt.t > opt.limit

\* SequentialGradientFunction: lambda_factor = 1.5
LambdaFactor == [n |-> 3, d |-> 2]

\* AvgSeparationDelta.apply: factor * sum(seps) / len(seps), the same for every parameter
delta(xv) ==
    LET f == entries(xv)
        seps == [i \in 1..(Len(f) - 1) |-> FrAbs(FrSub(f[i + 1], f[i]))]
    IN FrDiv(Times(LambdaFactor, FrSumTo(seps, Len(f) - 1)), [n |-> Len(f) - 1, d |-> 1])

\* gradient_inputs_from_deltas(x, deltas)[j - 1]: x with delta added to (j odd) or taken
\* from (j even) parameter (j + 1) \div 2
gradient_input(xv, j) ==
    LET f == entries(xv)
        d == IF j % 2 = 1 THEN delta(xv) ELSE FrNeg(delta(xv))
    IN vector([i \in 1..Len(f) |-> IF i = (j + 1) \div 2 THEN FrAdd(f[i], d) ELSE f[i]], FALSE)

\* gradient_from_costs(costs, deltas): (costs[2*i] - costs[2*i + 1]) / (2 * deltas[i])
gradient_from_costs(costs, d) ==
    [i \in 1..(Len(costs) \div 2) |->
        FrDiv(FrSub(Fr(costs[2 * i - 1][1], costs[2 * i - 1][2]),
                    Fr(costs[2 * i][1], costs[2 * i][2])),
              Times([n |-> 2, d |-> 1], d))]

\* the update functions of the model, with their lr
UpdateFunctions ==
    {[update |-> "GradientNoise", lr |-> [n |-> 3, d |-> 1]],
     [update |-> "Adam", lr |-> [n |-> 1, d |-> 500]]}

Seeds == {1, 2}

\* the parameters of the update functions: beta1 = 0.9 and epsilon = 0.1 are the defaults;
\* with gamma = 1 and beta2 = 0 the powers and roots are fractions
Beta1 == [n |-> 9, d |-> 10]

Epsilon == [n |-> 1, d |-> 10]

\* rng.normal(0, 1, ...) of a generator seeded with seed: a fixed sequence of draws
NormalDraws(seed) ==
    IF seed = 1
    THEN <<[n |-> 1, d |-> 2], [n |-> 1, d |-> 1], [n |-> -3, d |-> 2], [n |-> 1, d |-> 2]>>
    ELSE <<[n |-> -1, d |-> 2], [n |-> 1, d |-> 2], [n |-> 2, d |-> 1], [n |-> -1, d |-> 1]>>

\* GradientNoise.update: nabla[j] += noise[j], noise = rng.normal(0, std, len(nabla)),
\* std = lr / (1 + t + len(nabla)) ** gamma; rng has made drawn draws so far
noise_update(lr, nabla, t, seed, drawn) ==
    LET std == Over(lr, [n |-> 1 + t + Len(nabla), d |-> 1])
    IN [i \in 1..Len(nabla) |-> FrAdd(nabla[i], Times(std, NormalDraws(seed)[drawn + i]))]

\* an Adam as constructed, or after reset: size is None
FreshAdam == [size |-> 0, m |-> <<>>]

\* Adam.update, lines 48-55: the first moments
adam_moments(adam, nabla) ==
    LET m == IF adam.size = 0 THEN [i \in 1..Len(nabla) |-> [n |-> 0, d |-> 1]] ELSE adam.m
        size == IF adam.size = 0 THEN Len(nabla) ELSE adam.size
    IN [size |-> size,
        m |-> [i \in 1..size |-> FrAdd(Times(Beta1, m[i]), Times(FrAdd(One, Beta1), nabla[i]))]]

\* Adam.update, lines 56-61: with beta2 = 0, v is nabla ** 2, ve = v and sqrt(ve) = abs(nabla)
adam_update(lr, moments, nabla, t) ==
    [i \in 1..moments.size |->
        LET me == FrDiv(moments.m[i], FrSub(One, FrPower(Beta1, t)))
        IN FrNeg(FrDiv(Times(lr, me), FrAdd(FrAbs(nabla[i]), Epsilon)))]

\* self.update_function.update(S, x, nabla, t): the update and the state the function keeps
update(nabla) ==
    IF opt.update = "GradientNoise"
    THEN [update |-> noise_update(opt.lr, nabla, opt.t, opt.seed, opt.drawn),
          drawn |-> opt.drawn + Len(nabla),
          adam |-> opt.adam]
    ELSE LET moments == adam_moments(opt.adam, nabla)
         IN [update |-> adam_update(opt.lr, moments, nabla, opt.t),
             drawn |-> opt.drawn,
             adam |-> moments]

\* the systems of the model: one task, or two tasks in one or two flows
GDSystems == {s \in HOPASystems : s.n <= 2}

\* the priorities of the input system: 1/2 and 1, as after a normalized assignment
GDPriorities == {<<1, 2>>, <<2, 1>>, <<2, 2>>}

\* the local deadlines of the input system of a DeadlineExtractor
GDDeadlines == {<<1, 2>>, <<2, 1>>, <<2, 2>>}

\* the optimizer as constructed; reuse tells whether the second call of apply is made on
\* the optimizer of the first call or on one constructed in the same way
GDOptions ==
    {[op |-> "GD", update |-> f.update, lr |-> f.lr, seed |-> s, limit |-> l, reuse |-> r,
      stopf |-> "ThresholdStopFunction", threshold |-> 0, handler |-> h] :
        f \in UpdateFunctions, s \in Seeds, l \in StopLimits, r \in BOOLEAN,
        h \in {"PriorityExtractor", "DeadlineExtractor"}}

GDLocals ==
    [phase |-> "init", run |-> 1, t |-> 0, x |-> <<>>, probe |-> 0, costs |-> <<>>,
     stop |-> FreshStop, adam |-> FreshAdam, drawn |-> 0, marked |-> FALSE,
     scale |-> <<1, 1>>, measured |-> <<>>, first |-> <<>>, input |-> <<>>]

InitGD ==
    /\ sys \in GDSystems
    /\ processor \in {m \in [1..sys.n -> 1..2] : m[1] = 1}
    /\ priority \in {SubSeq(g, 1, sys.n) : g \in GDPriorities}
    /\ punit = 2
    /\ opt \in {o @@ GDLocals :
                   o \in {g \in GDOptions :
                             /\ g.update = "Adam" => g.seed = 1
                             /\ g.handler = "DeadlineExtractor" =>
                                    (g.update = "Adam" /\ ~g.reuse)}}
    /\ deadline \in IF opt.handler = "DeadlineExtractor"
                     THEN {SubSeq(g, 1, sys.n) : g \in GDDeadlines}
                     ELSE {[t \in 1..sys.n |-> DefaultDeadline]}
    /\ dunit = 1
    /\ wcrt = [t \in 1..sys.n |-> None]
    /\ cfg = [kind |-> "FP", limit_factor |-> 2, reset |-> FALSE]
    /\ InitLocals
    /\ backup = <<>>
    /\ xvec = <<>>
    /\ cost = NoCost
    /\ raised = "none"

\* the assignment in force in the system, with what the model keeps of its floats
in_force ==
    [priority |-> priority, punit |-> punit, deadline |-> deadline, dunit |-> dunit,
     processor |-> processor, marked |-> opt.marked, scale |-> opt.scale]

\* InvslackCost.compute, lines 16-18, on a system whose handled parameter is b[1] / b[2]:
\* the backup, self.parameter_handler.insert(S, x), and the call of the analysis; o is opt
\* at the call
BeginCompute(b, xv, o) ==
    /\ \E ins \in {insert(b, xv)} :
          /\ IF o.handler = "DeadlineExtractor"
             THEN /\ backup' = [t \in Tasks |->
                                   <<<<priority[t], punit>>, <<b[1][t], b[2]>>, processor[t]>>]
                  /\ deadline' = ins.v
                  /\ dunit' = ins.u
                  /\ UNCHANGED <<priority, punit>>
             ELSE /\ backup' = [t \in Tasks |->
                                   <<<<b[1][t], b[2]>>, <<deadline[t], dunit>>, processor[t]>>]
                  /\ priority' = ins.v
                  /\ punit' = ins.u
                  /\ UNCHANGED <<deadline, dunit>>
          /\ opt' = [o EXCEPT !.marked = ins.sig, !.scale = ins.scale]
    /\ xvec' = xv
    /\ AnalysisRestart
    /\ UNCHANGED <<sys, processor, cfg, edfvars, raised>>

\* lines 35-42: the first x, and the call of compute on it
GDApply ==
    /\ pc = "start"
    /\ opt.op = "GD"
    /\ opt.phase = "init"
    /\ \E x \in {extract(handled(same_assignment))} :
          BeginCompute(handled(same_assignment), x,
                       [opt EXCEPT !.phase = "cost", !.t = 1, !.x = x,
                                   !.input = <<priority, punit>>])
    /\ UNCHANGED <<wcrt, cost>>

\* compute, lines 19-21, then lines 43-61 and 72-77: should_stop says stop; the solution
\* of the stop function is inserted and returned
GDStop ==
    /\ pc = "done"
    /\ opt.op = "GD"
    /\ opt.phase = "cost"
    /\ \E c \in {max_cost} :
       \E st \in {should_stop(opt.stop, opt.x, c)} :
       \E r \in {restore_assignment(backup)} :
       \E sol \in {insert(handled(r), st.xb)} :
          /\ stops(c)
          /\ cost' = c
          /\ Restored(IF opt.handler = "DeadlineExtractor"
                      THEN [r EXCEPT !.deadline = sol.v, !.dunit = sol.u]
                      ELSE [r EXCEPT !.priority = sol.v, !.punit = sol.u])
          /\ opt' = [opt EXCEPT !.stop = st, !.marked = sol.sig, !.scale = sol.scale,
                                !.phase = "returned",
                                !.measured = IF st # opt.stop THEN in_force ELSE @,
                                !.first = IF opt.run = 1
                                          THEN [v |-> sol.v, u |-> sol.u, sig |-> sol.sig]
                                          ELSE @]
    /\ pc' = "returned"
    /\ UNCHANGED <<sys, processor, wcrt, cfg, exit, fpvars, cur, edfvars, backup, xvec,
                   raised>>

\* compute, lines 19-21, then lines 43-63: no stop; the gradient function calls compute on
\* the first of its inputs
GDGradient ==
    /\ pc = "done"
    /\ opt.op = "GD"
    /\ opt.phase = "cost"
    /\ \E c \in {max_cost} :
       \E st \in {should_stop(opt.stop, opt.x, c)} :
       \E r \in {restore_assignment(backup)} :
          /\ ~stops(c)
          /\ Len(opt.x.v) > 1
          /\ cost' = c
          /\ BeginCompute(handled(r), gradient_input(opt.x, 1),
                          [opt EXCEPT !.stop = st, !.phase = "probe", !.probe = 1,
                                      !.costs = <<>>,
                                      !.measured = IF st # opt.stop THEN in_force ELSE @])
    /\ UNCHANGED wcrt

\* compute, lines 19-21, then lines 43-63 with an x of one parameter: no stop, and
\* AvgSeparationDelta.apply (gradient_function.py 28-29) divides sum(seps) by len(seps) = 0
\* and raises ZeroDivisionError before any cost is evaluated
GDNoSeparation ==
    /\ pc = "done"
    /\ opt.op = "GD"
    /\ opt.phase = "cost"
    /\ \E c \in {max_cost} :
       \E st \in {should_stop(opt.stop, opt.x, c)} :
       \E r \in {restore_assignment(backup)} :
          /\ ~stops(c)
          /\ Len(opt.x.v) = 1
          /\ cost' = c
          /\ Restored(r)
          /\ opt' = [opt EXCEPT !.stop = st, !.phase = "probe", !.probe = 0, !.costs = <<>>,
                                !.marked = FALSE, !.scale = <<1, 1>>,
                                !.measured = IF st # opt.stop THEN in_force ELSE @]
    /\ pc' = "raised"
    /\ raised' = "ZeroDivisionError"
    /\ UNCHANGED <<sys, processor, wcrt, cfg, exit, fpvars, cur, edfvars, backup, xvec>>

\* gradient_function.compute, line 18: the cost of an input, and compute on the next one
GDProbe ==
    /\ pc = "done"
    /\ opt.op = "GD"
    /\ opt.phase = "probe"
    /\ opt.probe < 2 * sys.n
    /\ \E c \in {max_cost} :
       \E r \in {restore_assignment(backup)} :
          /\ cost' = c
          /\ BeginCompute(handled(r), gradient_input(opt.x, opt.probe + 1),
                          [opt EXCEPT !.probe = @ + 1, !.costs = Append(@, c)])
    /\ UNCHANGED wcrt

\* gradient_function.compute, lines 18-19, with deltas of 0: gradient_from_costs divides
\* by 2 * deltas[i] and raises ZeroDivisionError
GDZeroDelta ==
    /\ pc = "done"
    /\ opt.op = "GD"
    /\ opt.phase = "probe"
    /\ opt.probe = 2 * sys.n
    /\ delta(opt.x).n = 0
    /\ \E c \in {max_cost} :
       \E r \in {restore_assignment(backup)} :
          /\ cost' = c
          /\ Restored(r)
          /\ opt' = [opt EXCEPT !.costs = Append(@, c), !.marked = FALSE, !.scale = <<1, 1>>]
    /\ pc' = "raised"
    /\ raised' = "ZeroDivisionError"
    /\ UNCHANGED <<sys, processor, wcrt, cfg, exit, fpvars, cur, edfvars, backup, xvec>>

\* gradient_function.compute, lines 18-20, then lines 64-70 and 42: the update, the new x
\* inserted and extracted again, and the call of compute on it
GDUpdate ==
    /\ pc = "done"
    /\ opt.op = "GD"
    /\ opt.phase = "probe"
    /\ opt.probe = 2 * sys.n
    /\ delta(opt.x).n # 0
    /\ \E c \in {max_cost} :
       \E nabla \in {gradient_from_costs(Append(opt.costs, c), delta(opt.x))} :
       \E u \in {update(nabla)} :
       \E moved \in {vector([i \in Tasks |-> FrAdd(entries(opt.x)[i], u.update[i])], FALSE)} :
       \E r \in {restore_assignment(backup)} :
       \E b \in {insert(handled(r), moved)} :
       \E x \in {extract(<<b.v, b.u>>)} :
          /\ cost' = c
          /\ BeginCompute(<<b.v, b.u>>, x,
                          [opt EXCEPT !.phase = "cost", !.t = @ + 1, !.x = x,
                                      !.costs = Append(@, c), !.drawn = u.drawn,
                                      !.adam = u.adam])
    /\ UNCHANGED wcrt

\* the second call of apply, on a system equal to the input of the first call; it is
\* followed for the PriorityExtractor
GDSecond ==
    /\ pc = "returned"
    /\ opt.op = "GD"
    /\ opt.run = 1
    /\ opt.handler = "PriorityExtractor"
    /\ \E x \in {extract(opt.input)} :
          BeginCompute(opt.input, x,
                       [opt EXCEPT !.run = 2, !.phase = "cost", !.t = 1, !.x = x,
                                   !.probe = 0, !.costs = <<>>,
                                   !.stop = IF opt.reuse THEN @ ELSE FreshStop,
                                   !.adam = IF opt.reuse THEN @ ELSE FreshAdam,
                                   !.drawn = IF opt.reuse THEN @ ELSE 0])
    /\ wcrt' = [t \in Tasks |-> None]
    /\ cost' = NoCost

GDNext ==
    \/ GDApply
    \/ (opt.op = "GD" /\ opt.phase \in {"cost", "probe"} /\ FPNext)
    \/ GDStop
    \/ GDGradient
    \/ GDNoSeparation
    \/ GDProbe
    \/ GDZeroDelta
    \/ GDUpdate
    \/ GDSecond

GDSpec == InitGD /\ [][GDNext]_vars

(***************************************************************************)
(* Building a LinearSystem (model/linear_system.py): add_procs, add_flows  *)
(* with flows filled by Flow.add_tasks, and the lookups by name.  A        *)
(* processor or a flow is its name; opt holds the system under             *)
(* construction, the last call, and what it returned.                      *)
(***************************************************************************)
ProcNames == {"p1", "p2"}

FlowNames == {"f1", "f2"}

\* how many processors and flows the model adds to one system
MaxAdded == 2

\* the tasks of a flow, each one the processor it was constructed with
TaskLists == {<<>>} \cup [1..1 -> ProcNames] \cup [1..2 -> ProcNames]

BuiltFlows == [name : FlowNames, tasks : TaskLists]

\* LinearSystem.__init__
EmptySystem ==
    [op |-> "build", procs |-> <<>>, flows |-> <<>>, call |-> "none", arg |-> "none",
     returned |-> "None"]

InitBuild ==
    /\ sys = [n |-> 0, nflows |-> 0, nproc |-> 0]
    /\ processor = <<>>
    /\ priority = <<>>
    /\ punit = 1
    /\ deadline = <<>>
    /\ dunit = 1
    /\ wcrt = <<>>
    /\ cfg = [kind |-> "FP", limit_factor |-> LimitFactorDefault, reset |-> FALSE]
    /\ InitLocals
    /\ opt = EmptySystem
    /\ backup = <<>>
    /\ xvec = <<>>
    /\ cost = NoCost
    /\ raised = "none"

\* the names of a sequence of named things
names_of(s) == {s[i] : i \in 1..Len(s)}

\* LinearSystem.add_procs: self.processors.append(proc); proc.system = self
add_procs ==
    /\ opt.op = "build"
    /\ Len(opt.procs) < MaxAdded
    /\ \E name \in ProcNames :
          opt' = [opt EXCEPT !.procs = Append(@, name), !.call = "add_procs", !.arg = name,
                             !.returned = "None"]
    /\ UNCHANGED <<sysvars, wcrt, cfg, pc, exit, fpvars, cur, edfvars, backup, xvec, cost,
                   raised>>

\* LinearSystem.add_flows: self.flows += flows; flow.system = self
add_flows ==
    /\ opt.op = "build"
    /\ Len(opt.flows) < MaxAdded
    /\ \E f \in BuiltFlows :
          opt' = [opt EXCEPT !.flows = Append(@, f), !.call = "add_flows", !.arg = f.name,
                             !.returned = "None"]
    /\ UNCHANGED <<sysvars, wcrt, cfg, pc, exit, fpvars, cur, edfvars, backup, xvec, cost,
                   raised>>

\* LinearSystem.processor(name): next((p for p in self.processors if p.name == name), None)
processor_by_name ==
    /\ opt.op = "build"
    /\ \E name \in ProcNames :
          opt' = [opt EXCEPT !.call = "processor", !.arg = name,
                             !.returned = IF name \in names_of(opt.procs) THEN name
                                          ELSE "None"]
    /\ UNCHANGED <<sysvars, wcrt, cfg, pc, exit, fpvars, cur, edfvars, backup, xvec, cost,
                   raised>>

\* LinearSystem.__getitem__(name), lines 60-62: match[0] if match else None
flow_by_name ==
    /\ opt.op = "build"
    /\ \E name \in FlowNames :
          opt' = [opt EXCEPT !.call = "__getitem__", !.arg = name,
                             !.returned =
                                 IF \E i \in 1..Len(opt.flows) : opt.flows[i].name = name
                                 THEN name ELSE "None"]
    /\ UNCHANGED <<sysvars, wcrt, cfg, pc, exit, fpvars, cur, edfvars, backup, xvec, cost,
                   raised>>

\* LinearSystem.tasks: [task for flow in self.flows for task in flow.tasks], read from the
\* system as it is: the processors of the tasks
system_tasks ==
    /\ opt.op = "build"
    /\ opt' = [opt EXCEPT !.call = "tasks", !.arg = "none",
                          !.returned = Flatten([i \in 1..Len(opt.flows) |-> opt.flows[i].tasks])]
    /\ UNCHANGED <<sysvars, wcrt, cfg, pc, exit, fpvars, cur, edfvars, backup, xvec, cost,
                   raised>>

BuildNext ==
    \/ add_procs
    \/ add_flows
    \/ processor_by_name
    \/ flow_by_name
    \/ system_tasks

BuildSpec == InitBuild /\ [][BuildNext]_vars

(***************************************************************************)
(* The main loop of GradientDescentOptimizer.apply over its interfaces: a  *)
(* cost function that returns some cost for every x, a gradient and update *)
(* function that give some next x or raise, and one of the stop functions. *)
(***************************************************************************)
\* largest limit of a stop function
MaxLimit == 2

\* the vectors x: one parameter, None is <<>>
LoopVectors == {<<1>>, <<2>>}

\* the costs a cost function returns, float("inf") among them
LoopCosts == {<<-1, 1>>, <<0, 1>>, <<1, 1>>, InfCost}

\* ThresholdStopFunction(limit, threshold) and FixedIterationsStop(iterations), as constructed
StopFunctions ==
    {[stopf |-> "ThresholdStopFunction", limit |-> l, threshold |-> th] :
        l \in 0..MaxLimit, th \in {0, 1}}
    \cup {[stopf |-> "FixedIterationsStop", limit |-> l, threshold |-> 0] : l \in 0..MaxLimit}

\* apply, lines 35-39: t = 1 and x = self.parameter_handler.extract(S)
InitLoop ==
    /\ sys = [n |-> 0, nflows |-> 0, nproc |-> 0]
    /\ processor = <<>>
    /\ priority = <<>>
    /\ punit = 1
    /\ deadline = <<>>
    /\ dunit = 1
    /\ wcrt = <<>>
    /\ cfg = [kind |-> "FP", limit_factor |-> LimitFactorDefault, reset |-> FALSE]
    /\ InitLocals
    /\ opt \in {[op |-> "loop", phase |-> "cost", t |-> 1, x |-> x, stop |-> FreshStop,
                 history |-> <<>>] @@ f : x \in LoopVectors, f \in StopFunctions}
    /\ backup = <<>>
    /\ xvec = <<>>
    /\ cost = NoCost
    /\ raised = "none"

\* apply, lines 42-61: the cost of x, and should_stop on it
LoopCost ==
    /\ opt.op = "loop"
    /\ opt.phase = "cost"
    /\ \E c \in LoopCosts :
          /\ cost' = c
          /\ opt' = [opt EXCEPT !.stop = should_stop(opt.stop, opt.x, c),
                                !.history = Append(@, [x |-> opt.x, cost |-> c]),
                                !.phase = IF stops(c) THEN "stopped" ELSE "gradient"]
    /\ UNCHANGED <<sysvars, wcrt, cfg, pc, exit, fpvars, cur, edfvars, backup, xvec, raised>>

\* apply, lines 63-70: gradient, update, t = t + 1, and the new x inserted and extracted
LoopStep ==
    /\ opt.op = "loop"
    /\ opt.phase = "gradient"
    /\ \E x \in LoopVectors :
          /\ opt' = [opt EXCEPT !.x = x, !.t = @ + 1, !.phase = "cost"]
          /\ xvec' = x
    /\ UNCHANGED <<sysvars, wcrt, cfg, pc, exit, fpvars, cur, edfvars, backup, cost, raised>>

\* apply, line 63: the gradient function raises
LoopGradientRaises ==
    /\ opt.op = "loop"
    /\ opt.phase = "gradient"
    /\ opt' = [opt EXCEPT !.phase = "raised"]
    /\ raised' = "ZeroDivisionError"
    /\ UNCHANGED <<sysvars, wcrt, cfg, pc, exit, fpvars, cur, edfvars, backup, xvec, cost>>

\* apply, lines 72-77: the solution of the stop function is inserted and returned; the
\* insert of a solution of None raises TypeError
LoopReturn ==
    /\ opt.op = "loop"
    /\ opt.phase = "stopped"
    /\ IF opt.stop.xb = <<>>
       THEN /\ opt' = [opt EXCEPT !.phase = "raised"]
            /\ raised' = "TypeError"
            /\ xvec' = xvec
       ELSE /\ opt' = [opt EXCEPT !.phase = "returned"]
            /\ raised' = raised
            /\ xvec' = opt.stop.xb
    /\ UNCHANGED <<sysvars, wcrt, cfg, pc, exit, fpvars, cur, edfvars, backup, cost>>

LoopNext ==
    \/ LoopCost
    \/ LoopStep
    \/ LoopGradientRaises
    \/ LoopReturn

LoopSpec == InitLoop /\ [][LoopNext]_vars

(***************************************************************************)
(* HolisticFPAnalysis.apply with the tasks of a pass visited in any order: *)
(* the analysis is run as the code runs it, and then again on the same     *)
(* system with an order of visit that may change from pass to pass.        *)
(***************************************************************************)
\* the orders in which a pass can visit the tasks
Orders == {o \in [Tasks -> Tasks] : \A t \in Tasks : \E k \in Tasks : o[k] = t}

InitOrder ==
    /\ InitGenFP
    /\ ~cfg.reset
    /\ dunit = 1
    /\ punit = 1
    /\ wcrt = [t \in 1..sys.n |-> None]
    /\ InitLocals
    /\ opt = [op |-> "order", run |-> 1, order |-> [t \in Tasks |-> t], reference |-> <<>>]
    /\ backup = <<>>
    /\ xvec = <<>>
    /\ cost = NoCost
    /\ raised = "none"

\* the analysis converged in the order of the code: its result is kept, and apply is called
\* again with another order of visit
OrderSecond ==
    /\ opt.op = "order"
    /\ opt.run = 1
    /\ pc = "done"
    /\ exit = "converged"
    /\ \E o \in Orders : opt' = [opt EXCEPT !.run = 2, !.order = o, !.reference = wcrt]
    /\ AnalysisRestart
    /\ UNCHANGED <<sysvars, wcrt, cfg, edfvars, backup, xvec, cost, raised>>

\* line 26 of the second call: the next pass visits the tasks in another order
OrderChange ==
    /\ opt.op = "order"
    /\ opt.run = 2
    /\ pc = "outer"
    /\ wcrts # wcrts_prev
    /\ \E o \in Orders \ {opt.order} : opt' = [opt EXCEPT !.order = o]
    /\ UNCHANGED <<sysvars, wcrt, cfg, pc, exit, fpvars, cur, edfvars, backup, xvec, cost,
                   raised>>

OrderNext ==
    \/ FPNext
    \/ OrderSecond
    \/ OrderChange

OrderSpec == InitOrder /\ [][OrderNext]_vars

Next == AnalysisNext \/ CalculatePriorities

Spec == Init /\ [][Next]_vars

\* HolisticFPAnalysis.apply alone, on the systems of Init
InitFP == Init /\ cfg.kind = "FP"

\* apply is sequential code: a step that can be taken is taken
FPSpec == InitFP /\ [][FPNext]_vars /\ WF_vars(FPNext)

(***************************************************************************)
(* Properties.                                                             *)
(***************************************************************************)
\* apply of the FP analysis is running, init_wcrt done
FPRunning == cfg.kind = "FP" /\ pc \in {"outer", "wloop"}

\* apply of the FP analysis has returned
FPDone == cfg.kind = "FP" /\ pc = "done"

\* the step leaves the wcrt of no task of S lower than it was
NoDecrease(S) == \A t \in S : wcrt'[t] >= wcrt[t]

\* init_wcrt leaves no task of the flow of t above the limit of the flow
InitWithinLimit(t) == \A u \in Tasks : flow(u) = flow(t) => init_wcrt[u] <= limit(t)

\* C1 as claimed: once init_wcrt has run, no step of HolisticFPAnalysis.apply, on the
\* converging path or on the limit-exceeded path, lowers the wcrt of any task.
C1_NeverDecreases == [][FPRunning => NoDecrease(Tasks)]_vars

\* C1 as amended: every step of the converging path leaves every wcrt at least as large as
\* it was; the limit-exceeded return with reset=false lowers no wcrt but that of a
\* successor of the task under analysis, and not even that when init_wcrt left the tasks of
\* the flow within the limit (the return with reset=true clears every wcrt).
C1_MonotoneUntilRecovery ==
    [][FPRunning =>
         /\ exit' # "limit" => NoDecrease(Tasks)
         /\ (exit' = "limit" /\ ~cfg.reset) =>
               /\ NoDecrease(Tasks \ all_successors(cur))
               /\ InitWithinLimit(cur) => NoDecrease(Tasks)]_vars

\* C1 witness: the analysis converged after raising some wcrt above its initial value
C1_Witness ==
    /\ FPDone
    /\ exit = "converged"
    /\ \E t \in Tasks : wcrt[t] > init_wcrt[t]

\* wcrt(t) >= wcet(t), and wcrt(t) >= wcrt(predecessor) + wcet(t) when t has one
ChainBound(t) ==
    /\ wcrt[t] >= wcet(t)
    /\ predecessors(t) # {} => wcrt[t] >= wcrt[t - 1] + wcet(t)

\* C2 as claimed: whenever HolisticFPAnalysis.apply has returned without clearing the
\* WCRTs, after convergence or after the limit-exceeded return with reset=false, every task
\* has wcrt >= wcet and wcrt >= wcrt(predecessor) + wcet.
C2_ChainBoundOnReturn ==
    (FPDone /\ wcrt # reset_wcrt) => \A t \in Tasks : ChainBound(t)

\* C2 as amended: the bound holds for every task when apply returns by convergence; after
\* the limit-exceeded return with reset=false it holds for every task but the successors of
\* the task under analysis, which hold that task's wcrt.
C2_ChainBoundOnConvergence ==
    /\ (FPDone /\ exit = "converged") => \A t \in Tasks : ChainBound(t)
    /\ (FPDone /\ exit = "limit" /\ ~cfg.reset) =>
          \A t \in Tasks \ all_successors(cur) : ChainBound(t)

\* C2 witness: a converged analysis in which a task's wcrt exceeds its predecessor's wcrt
\* plus its own wcet
C2_Witness ==
    /\ FPDone
    /\ exit = "converged"
    /\ \E t \in Tasks : predecessors(t) # {} /\ wcrt[t] > wcrt[t - 1] + wcet(t)

\* the three-task system of get_three_tasks under the FP analysis
ThreeTasksFP ==
    /\ sys = ThreeTasksSys
    /\ processor = ThreeTasksProcessor
    /\ priority = ThreeTasksPriority
    /\ cfg.kind = "FP"

\* C3 as claimed: on the three-task system, after HolisticFPAnalysis.apply each task's wcrt
\* equals its own wcet plus the wcrt of its predecessor (its wcet for the first task).
C3_ThreeTasksEquality ==
    (ThreeTasksFP /\ pc = "done") =>
        \A t \in Tasks : wcrt[t] = wcet(t) + jitter(t)

\* C3 as amended: on the three-task system HolisticFPAnalysis.apply converges to the wcrts
\* 2, 9 and 36: the first task's wcrt equals its wcet, every later task's wcrt is larger
\* than its wcet plus the wcrt of its predecessor.
C3_ThreeTasksValues ==
    (ThreeTasksFP /\ pc = "done") =>
        /\ exit = "converged"
        /\ wcrt = <<2, 9, 36>>
        /\ \A t \in Tasks : wcrt[t] >= wcet(t) + jitter(t)

\* C3 witness: the analysis of the three-task system has returned, the last task with 36
C3_Witness == ThreeTasksFP /\ pc = "done" /\ wcrt[3] = 36

\* the Palencia system under the FP analysis with limit_factor = 10
PalenciaFP ==
    /\ sys = PalenciaSys
    /\ processor = PalenciaProcessor
    /\ priority = PalenciaPriority
    /\ cfg.kind = "FP"
    /\ cfg.limit_factor = LimitFactorDefault

\* C4: on the Palencia system HolisticFPAnalysis.apply with limit_factor = 10 terminates,
\* by convergence and never by the limit-exceeded return, and leaves the known wcrts
\* 5, 17, 42, 5, 15, 30 on the six tasks.
C4_PalenciaConverges ==
    PalenciaFP ~> (/\ pc = "done"
                   /\ exit = "converged"
                   /\ wcrt = <<5, 17, 42, 5, 15, 30>>)

\* C4 witness: the analysis of the Palencia system has returned with every flow schedulable
C4_Witness ==
    /\ PalenciaFP
    /\ pc = "done"
    /\ \A f \in 1..sys.nflows : flow_is_schedulable(f)

\* C5 as claimed: HolisticFPAnalysis.apply terminates on every system with positive integer
\* wcets, periods and deadlines: while it has not returned it can take a step, whatever the
\* value p has reached (the p loop is left by w <= p * period or by r > limit).
C5_FPTerminates == (cfg.kind = "FP" /\ pc # "prio_done") => (pc = "done" \/ ENABLED Next)

\* C6 as claimed: on an all-EDF system both EDF analyses end by convergence of their fixed
\* points or by the limit-exceeded path.
C6_EDFTerminates ==
    (cfg.kind \in {"GEDF", "LEDF"} /\ is_edf /\ pc = "done") => exit \in {"converged", "limit"}

\* C7: with a processor that is not EDF, both EDF analyses return at once with every wcrt
\* unknown: the only state after the start is the returned one, no analysis step is taken.
C7_NotEDFClearsWcrts ==
    (/\ cfg.kind \in {"GEDF", "LEDF"}
     /\ \E q \in Procs : sys.sched[q] # "EDF"
     /\ pc \notin {"start", "prio_done"}) =>
        /\ pc = "done"
        /\ exit = "not_edf"
        /\ \A t \in Tasks : wcrt[t] = None
        /\ cur = 0 /\ ~changed /\ todo = <<>>

\* C7 witness: the Palencia system (FP processors) handed to the local EDF analysis
C7_Witness ==
    /\ sys = PalenciaSys
    /\ cfg.kind = "LEDF"
    /\ pc = "done"
    /\ wcrt = reset_wcrt

\* C8: an analysis with reset=true that meets r > limit returns with every wcrt unknown,
\* and whenever an analysis with reset=true has returned the wcrts are all unknown or all
\* known.
C8_ResetIsAllOrNothing ==
    (pc = "done" /\ cfg.reset /\ exit # "RecursionError") =>
        /\ exit = "limit" => \A t \in Tasks : wcrt[t] = None
        /\ \/ \A t \in Tasks : wcrt[t] = None
           \/ \A t \in Tasks : wcrt[t] # None

\* C8 witness: the global EDF analysis with reset=true has taken the limit-exceeded path
\* in the middle of a _proc_analysis
C8_Witness ==
    /\ cfg.kind = "GEDF"
    /\ cfg.reset
    /\ pc = "done"
    /\ exit = "limit"
    /\ todo # <<>>

\* C9: after the limit-exceeded return of HolisticFPAnalysis with reset=false and
\* limit_factor >= 1, the task T under analysis holds the r that exceeded the limit, every
\* task after T in its flow holds wcrt(T), every task has a known wcrt, and T's flow is
\* not schedulable.
C9_PropagateOnLimit ==
    (FPDone /\ exit = "limit" /\ ~cfg.reset /\ cfg.limit_factor >= 1) =>
        /\ wcrt[cur] = fp_r(cur, p, w)
        /\ wcrt[cur] > limit(cur)
        /\ \A u \in all_successors(cur) : wcrt[u] = wcrt[cur]
        /\ \A t \in Tasks : wcrt[t] # None /\ wcrt[t] >= 1
        /\ ~flow_is_schedulable(flow(cur))

\* C9 witness: the limit was exceeded by a task that has two successors
C9_Witness ==
    /\ FPDone
    /\ exit = "limit"
    /\ ~cfg.reset
    /\ Cardinality(all_successors(cur)) = 2

\* C10: after calculate_priorities the priorities of the k tasks of each processor are
\* exactly 1..k, each used once.
C10_PrioritiesArePermutation ==
    pc = "prio_done" =>
        \A q \in Procs :
            /\ {priority[t] : t \in proc_tasks(q)} = 1..Cardinality(proc_tasks(q))
            /\ \A t, u \in proc_tasks(q) : priority[t] = priority[u] => t = u

\* C10 witness: priorities were derived for three tasks of one processor, two of them with
\* equal deadlines
C10_Witness ==
    /\ pc = "prio_done"
    /\ \E q \in Procs :
          /\ Cardinality(proc_tasks(q)) = 3
          /\ \E t, u \in proc_tasks(q) : t # u /\ deadline[t] = deadline[u]
          /\ \E t, u \in proc_tasks(q) : deadline[t] # deadline[u]

\* the deadlines of the tasks of flow f add up to the deadline of the flow
DeadlinesSumTo(f) ==
    Sum([t \in Tasks |-> IF flow(t) = f THEN deadline[t] ELSE 0]) = sys.fdeadline[f] * dunit

\* C11 as claimed: after PDAssignment.apply, whatever its options, the local deadlines of
\* each flow sum to the flow's deadline.
C11_DeadlinesSumAlways == pc = "pd_done" => \A f \in 1..sys.nflows : DeadlinesSumTo(f)

\* C11 as amended: after PDAssignment.apply with globalize=false every deadline is
\* wcet * D / (sum of the flow's wcets), the deadlines of each flow sum to D, and the flow
\* with D = 100 and wcets 1, 2, 7 gets 10, 20, 70; with globalize=true every deadline is
\* the sum of those shares up to the task, so the last task of each flow holds D.
C11_DeadlinesProportional ==
    pc = "pd_done" =>
        /\ ~opt.globalize =>
              /\ \A t \in Tasks :
                    deadline[t] * sum_wcet(flow(t)) = wcet(t) * flow_deadline(t) * dunit
              /\ \A f \in 1..sys.nflows : DeadlinesSumTo(f)
              /\ sys = PDExampleSys => deadline = <<10, 20, 70>> /\ dunit = 1
        /\ opt.globalize =>
              /\ \A t \in Tasks :
                    deadline[t] * sum_wcet(flow(t)) =
                        Sum([u \in Tasks |-> IF flow(u) = flow(t) /\ u <= t THEN wcet(u) ELSE 0])
                        * flow_deadline(t) * dunit
              /\ \A f \in 1..sys.nflows : deadline[last_task(f)] = sys.fdeadline[f] * dunit

\* C11 witness: PD without globalize left deadlines that are not integers
C11_Witness ==
    /\ pc = "pd_done"
    /\ ~opt.globalize
    /\ dunit > 1
    /\ sys.nflows = 2

\* C12: a = backup_assignment(system) holds the (priority, deadline, processor) of every
\* task at that moment, no write to the tasks changes it, and restore_assignment(system, a)
\* leaves every task with exactly the triple held in a: the triples after the restore are
\* those of the moment of the backup, whatever was written in between.
C12_RestoreReturnsBackup ==
    [][/\ pc' = "backed_up" /\ pc # "backed_up" =>
             /\ backup' = [t \in Tasks |-> triple(t)]
             /\ [t \in Tasks |-> triple(t)]' = [t \in Tasks |-> triple(t)]
       /\ pc = "backed_up" => backup' = backup
       /\ pc' = "restored" => [t \in Tasks |-> triple(t)]' = backup]_vars

\* C12 witness: the assignment was restored after two writes, to deadlines that are
\* fractions and a mapping that uses the second processor
C12_Witness ==
    /\ pc = "restored"
    /\ opt.mutations = MaxMutations
    /\ dunit > 1
    /\ \E t \in Tasks : processor[t] = 2

\* C16 as claimed: for each of the four handlers, with x' = extract(S) taken right after
\* insert(S, x), the second insert(S, x') in a row returns and leaves the priorities,
\* deadlines and processors the first insert(S, x') left.
C16_InsertIdempotent ==
    [][(pc = "inserted_once" /\ pc' = "inserted_twice") =>
          /\ raised' = "none"
          /\ [t \in Tasks |-> triple(t)]' = [t \in Tasks |-> triple(t)]]_vars

\* the row of the task of index i (from 0) in x: its p values x[i*p], .., x[i*p + p - 1]
mapping_row(xv, i) ==
    SubSeq(xv.v, i * sys.nproc + 1, i * sys.nproc + sys.nproc)

\* the task of index i goes to the processor of the first largest value of its own row
MappedByOwnRow(xv) ==
    \A t \in Tasks : processor[t] = index_of_max(mapping_row(xv, t - 1)) + 1

\* C20 as claimed: insert of the two mapping handlers raises no error and maps every task
\* to the processor at the first maximum of the task's own row of p values, for every
\* number p of processors.
C20_MapsToRowMaximum ==
    [][(pc = "start" /\ pc' = "inserted" /\ IsMapping(opt.handler)) =>
          /\ raised' = "none"
          /\ MappedByOwnRow(xvec)']_vars

\* InvslackCost.compute has ended: it returned or it raised
ComputeEnded == opt.op = "cost" /\ pc \in {"computed", "raised"}

\* C13 as claimed: once InvslackCost.compute(S, x) has ended, every task holds the
\* priority, deadline and processor it held just before the call.
C13_ComputeLeavesAssignment == ComputeEnded => backup_assignment = backup

\* C14 as claimed: InvslackCost.compute raises no error, whatever way the analysis ends
\* and whatever its recovery mode is.
C14_ComputeNeverRaises == opt.op = "cost" => raised = "none"

\* C15 as claimed: the cost returned by compute is negative if and only if the system is
\* schedulable with the same wcrts, and the slack is positive if and only if it is.
C15_NegativeIffSchedulable ==
    (opt.op = "cost" /\ pc = "computed") =>
        /\ cost[1] < 0 <=> is_schedulable
        /\ slack[1] > 0 <=> is_schedulable

\* C15, amended: the cost returned by compute is negative or zero if and only if the system
\* is schedulable with the same wcrts, and the slack is positive or zero if and only if it
\* is; a flow whose wcrt equals its deadline has cost 0 and slack 0 and is schedulable.
C15_NonPositiveIffSchedulable ==
    (opt.op = "cost" /\ pc = "computed") =>
        /\ cost[1] <= 0 <=> is_schedulable
        /\ slack[1] >= 0 <=> is_schedulable
        /\ cost = <<-slack[1], slack[2]>>

\* compute returned cost 0 on a schedulable system with a flow that meets its deadline exactly
C15_Witness ==
    /\ opt.op = "cost"
    /\ pc = "computed"
    /\ cost = <<0, 1>>
    /\ is_schedulable
    /\ \E f \in 1..sys.nflows : flow_wcrt(f) = sys.fdeadline[f]

\* the deadlines dl over the denominator u are numbers and sum to D in every flow
SumToFlowDeadline(dl, u) ==
    /\ \A t \in Tasks : dl[t] \notin {NaN, Inf}
    /\ \A f \in 1..sys.nflows :
          Sum([t \in Tasks |-> IF flow(t) = f THEN dl[t] ELSE 0]) = sys.fdeadline[f] * u

\* C18 as claimed: in the assignment HOPAssignment.apply leaves, and after every call of
\* update_local_deadlines inside it, the local deadlines of each flow sum to the flow's
\* end-to-end deadline, whatever the options of HOPA are.
C18_DeadlinesSumToFlowDeadline ==
    opt.op = "HOPA" =>
        /\ pc = "returned" => SumToFlowDeadline(deadline, dunit)
        /\ opt.updated.v # <<>> => SumToFlowDeadline(opt.updated.v, opt.updated.u)

\* update_local_deadlines left deadlines that are not numbers, with globalize off and an
\* analysis that propagates on its limit
C18_NaNReached ==
    /\ opt.op = "HOPA"
    /\ ~opt.globalize
    /\ ~cfg.reset
    /\ opt.updated.v # <<>>
    /\ \E t \in Tasks : opt.updated.v[t] = NaN

\* C19: during HOPAssignment.apply best_slack never decreases; whenever it changes, it is
\* the slack of the iteration just analysed and best_assignment is the assignment of that
\* analysis; best_assignment changes with best_slack only; and if the system was schedulable
\* after the analysis of some iteration, it is schedulable when apply returns.
C19_BestIsKept ==
    [][opt.op = "HOPA" =>
          /\ ~FracGreater(opt.best_slack[1], opt.best_slack[2],
                          opt'.best_slack[1], opt'.best_slack[2])
          /\ opt'.best_slack # opt.best_slack =>
                /\ pc = "cleaned"
                /\ opt'.best_slack = slack
                /\ opt'.best_assignment = backup_assignment
          /\ (opt'.best_assignment # opt.best_assignment /\ opt.phase # "init") =>
                opt'.best_slack # opt.best_slack
          /\ (pc' = "returned" /\ opt.iterations_to_sched >= 0) => is_schedulable']_vars

\* apply returned on a schedulable system that became schedulable in a later iteration
\* than the first, and went on for an iteration after that
C19_Witness ==
    /\ opt.op = "HOPA"
    /\ pc = "returned"
    /\ opt.iterations_to_sched > 1
    /\ opt.over_iterations < opt.over_iterations0
    /\ is_schedulable

\* the priorities of the system, with the mark of a sigmoid kept as its argument
final_priorities == [v |-> priority, u |-> punit, sig |-> opt.marked]

\* C17 as claimed: two calls of GradientDescentOptimizer.apply with the same seed on equal
\* input systems end with the same priorities, whether the second call is made on a newly
\* constructed optimizer or on the optimizer of the first call, with its stop function,
\* Adam moments and noise generator.
C17_SameFinalPriorities ==
    (opt.op = "GD" /\ pc = "returned" /\ opt.run = 2) => final_priorities = opt.first

\* two calls on optimizers constructed in the same way end with the same priorities
C17_FreshRunsAgree ==
    (opt.op = "GD" /\ pc = "returned" /\ opt.run = 2 /\ ~opt.reuse) =>
        final_priorities = opt.first

\* the last call met a structural violation: an empty flow was added, the tasks of the system
\* were read while one of them sits on a processor that was never added, or a name that is
\* not there was looked up
structural_violation ==
    \/ opt.call = "add_flows" /\ opt.flows[Len(opt.flows)].tasks = <<>>
    \/ opt.call = "tasks" /\ \E i \in 1..Len(opt.returned) :
                                 opt.returned[i] \notin names_of(opt.procs)
    \/ opt.call = "processor" /\ opt.arg \notin names_of(opt.procs)
    \/ opt.call = "__getitem__" /\ \A i \in 1..Len(opt.flows) : opt.flows[i].name # opt.arg

\* C21 as claimed: a structural integrity violation (a task on a processor that is not
\* registered, an empty flow, a lookup of an unknown processor or flow name) ends in an
\* error and never in a normal return.
C21_StructuralErrorsRejected ==
    (opt.op = "build" /\ structural_violation) => raised # "none"

\* C29 as claimed: in the global EDF analysis, the busy period _longest_busy_period(proc, 0)
\* of a processor with tasks is at least the sum of their wcets, and every task of the
\* processor has at least one activation in it, also when all jitters are 0.
C29_BusyPeriodCoversWcets ==
    (cfg.kind = "GEDF" /\ pc = "gtask" /\ proc_tasks(cur) # {}) =>
        /\ length >= Sum([u \in Tasks |-> IF u \in proc_tasks(cur) THEN wcet(u) ELSE 0])
        /\ \A t \in proc_tasks(cur) : activations(t, length) >= 1

\* C25: a step of HolisticFPAnalysis.apply, HolisticGlobalEDFAnalysis.apply or
\* HolisticLocalEDFAnalysis.apply changes no priority, deadline, processor or wcet of a task
\* and no period or deadline of a flow, on any path: convergence, limit exceeded with either
\* reset mode, or the precondition mismatch.
C25_AnalysesWriteOnlyWcrt == [][AnalysisNext => UNCHANGED sysvars]_vars

\* an analysis has returned after a limit was exceeded, having written wcrts
C25_Witness ==
    /\ pc = "done"
    /\ exit = "limit"
    /\ \E t \in Tasks : wcrt[t] # None /\ wcrt[t] > limit(t)

\* the number of the current iteration of HOPAssignment.apply, over all k-pairs
hopa_iteration == (opt.k - 1) * opt.iterations + opt.i

\* the loops of HOPAssignment.apply are over
hopa_ended == opt.phase \in {"final", "returned"}

\* C26: with over_iterations = k, HOPAssignment.apply never runs more than k iterations
\* after the first schedulable one; when the loop is left by the stop flag with patience
\* left, it is left exactly k iterations after the first schedulable one (at that one when
\* k = 0); when it is left without the stop flag, the iteration budget of all k-pairs is used
\* up.
C26_OverIterations ==
    opt.op = "HOPA" =>
        /\ (opt.iterations_to_sched >= 0) =>
               hopa_iteration <= opt.iterations_to_sched + opt.over_iterations0
        /\ (hopa_ended /\ opt.stop /\ opt.patience > 0) =>
               /\ opt.iterations_to_sched >= 0
               /\ hopa_iteration = opt.iterations_to_sched + opt.over_iterations0
        /\ (hopa_ended /\ ~opt.stop) => hopa_iteration = opt.iterations * Len(opt.k_pairs)

\* the loop was left one iteration after the first schedulable one, in an iteration that
\* was itself not schedulable
C26_Witness ==
    /\ opt.op = "HOPA"
    /\ opt.phase = "final"
    /\ pc = "start"
    /\ opt.stop
    /\ opt.patience > 0
    /\ opt.over_iterations0 = 1
    /\ hopa_iteration = opt.iterations_to_sched + 1
    /\ \E f \in 1..sys.nflows : flow_wcrt(f) > sys.fdeadline[f]

\* C27: with patience = P > 0 the counter of HOPAssignment.apply is P less the number of
\* consecutive iterations, up to the current one, in which calculate_priorities changed no
\* priority, and never below 0; no iteration follows the one where it reaches 0, and the
\* loops are then left by the stop flag, after P unchanged iterations in a row.
C27_Patience ==
    /\ []((opt.op = "HOPA" /\ opt.phase # "init") =>
            /\ opt.patience = opt.patience0 - opt.unchanged
            /\ opt.patience >= 0
            /\ (opt.patience = 0 /\ hopa_ended) =>
                   (opt.stop /\ opt.unchanged = opt.patience0))
    /\ [][(opt.op = "HOPA" /\ opt.phase = "iterating" /\ opt.patience = 0) =>
              /\ hopa_iteration' = hopa_iteration
              /\ opt'.phase = "final" => opt'.stop]_vars

\* the loop was left because two iterations in a row changed no priority
C27_Witness ==
    /\ opt.op = "HOPA"
    /\ hopa_ended
    /\ opt.stop
    /\ opt.patience0 = 2
    /\ opt.patience = 0
    /\ opt.unchanged = 2
    /\ opt.iterations_to_sched < 0


\* C30 as claimed: SequentialGradientFunction.compute returns the n partial derivatives
\* from 2n cost evaluations for every x of n >= 1 parameters: the step delta is strictly
\* positive and no division by zero occurs, also for one parameter or all parameters equal.
C30_GradientNeverDividesByZero ==
    (opt.op = "GD" /\ opt.phase = "probe") => raised # "ZeroDivisionError"


\* the stop condition of ThresholdStopFunction at evaluation i of the run
stop_condition(i) ==
    \/ FracGreater(opt.threshold, 1, opt.history[i].cost[1], opt.history[i].cost[2])
    \/ i > opt.limit

\* the main loop has been left by the break of line 61
loop_stopped == opt.phase \in {"stopped", "returned"} \/ raised = "TypeError"

\* C22: with ThresholdStopFunction(limit, threshold) the main loop of apply makes its
\* evaluation number t at iteration t, stops at the first evaluation whose cost is below
\* the threshold or whose number is above the limit and at no earlier one, and so makes at
\* most limit + 1 evaluations.
C22_StopsAtFirstStopCondition ==
    (opt.op = "loop" /\ opt.stopf = "ThresholdStopFunction") =>
        /\ Len(opt.history) <= opt.limit + 1
        /\ Len(opt.history) = IF opt.phase = "cost" THEN opt.t - 1 ELSE opt.t
        /\ \A i \in 1..Len(opt.history) :
               stop_condition(i) <=> (i = Len(opt.history) /\ loop_stopped)

C22_Witness ==
    /\ opt.op = "loop"
    /\ opt.stopf = "ThresholdStopFunction"
    /\ opt.phase = "returned"
    /\ opt.limit = 2
    /\ opt.threshold = 1
    /\ Len(opt.history) = 2
    /\ opt.history[1].cost = <<1, 1>>
    /\ opt.history[2].cost = <<0, 1>>

\* the least of the costs evaluated so far is the cost of evaluation i, and of none before
first_least(i) ==
    /\ \A j \in 1..Len(opt.history) :
           ~FracGreater(opt.history[i].cost[1], opt.history[i].cost[2],
                        opt.history[j].cost[1], opt.history[j].cost[2])
    /\ \A j \in 1..(i - 1) :
           FracGreater(opt.history[j].cost[1], opt.history[j].cost[2],
                       opt.history[i].cost[1], opt.history[i].cost[2])

\* C23: with a stop function as constructed, the vector apply returns is an x evaluated in
\* the main loop of the run, the first of those of least cost, and solution_cost() is that
\* least cost.
C23_ReturnsFirstLeastCost ==
    (opt.op = "loop" /\ opt.phase = "returned") =>
        \E i \in 1..Len(opt.history) :
            /\ first_least(i)
            /\ xvec = opt.history[i].x
            /\ opt.stop.xb = opt.history[i].x
            /\ opt.stop.best = opt.history[i].cost

C23_Witness ==
    /\ opt.op = "loop"
    /\ opt.stopf = "FixedIterationsStop"
    /\ opt.phase = "returned"
    /\ Len(opt.history) = 3
    /\ opt.history[1].cost = <<1, 1>>
    /\ opt.history[2].cost = <<0, 1>>
    /\ opt.history[3].cost = <<0, 1>>
    /\ opt.history[2].x # opt.history[3].x
    /\ xvec = opt.history[2].x


\* C28 as claimed: when GradientDescentOptimizer.apply returns, the priorities, deadlines
\* and processors the final insert of the solution leaves in the system are the ones that
\* were in force inside InvslackCost.compute when the best cost was measured, for the
\* PriorityExtractor and the DeadlineExtractor alike.
C28_InstalledIsMeasured ==
    (opt.op = "GD" /\ pc = "returned" /\ opt.run = 1) => in_force = opt.measured

\* with the PriorityExtractor the installed assignment is the measured one
C28_PrioritiesInstalledAreMeasured ==
    (opt.op = "GD" /\ pc = "returned" /\ opt.run = 1 /\ opt.handler = "PriorityExtractor") =>
        in_force = opt.measured


\* C24: on a system on which HolisticFPAnalysis converges without a response time above
\* the limit, a run that visits the tasks of each pass in any other order converges too,
\* without a response time above the limit, and ends with the same wcrt of every task.
C24_OrderOfVisitIsIrrelevant ==
    (opt.op = "order" /\ opt.run = 2) =>
        /\ \A t \in Tasks : wcrt[t] <= opt.reference[t]
        /\ pc = "done" => (exit = "converged" /\ wcrt = opt.reference)

C24_Witness ==
    /\ opt.op = "order"
    /\ opt.run = 2
    /\ pc = "done"
    /\ opt.order = [t \in Tasks |-> sys.n + 1 - t]
    /\ wcrt = opt.reference
    /\ \E t \in Tasks : wcrt[t] > init_wcrt[t]

====
